---- MODULE Spec2Model ----
(***************************************************************************)
(* Model of the npmx.dev image proxy.                                      *)
(*                                                                         *)
(*   src/server/utils/image-proxy.ts                      the URL guard,   *)
(*       the host resolution validator and the HMAC signer/verifier        *)
(*   src/server/api/social/profile/[identifier]/likes.get.ts, lines 19-254 *)
(*       the image-proxy request handler: query validation, signature      *)
(*       check, manual redirect loop, post-fetch checks and the            *)
(*       size-limited streaming relay                                      *)
(*                                                                         *)
(* One request is modelled from its arrival to the end of its relay.  The  *)
(* handler is an async function: every action below is the code that runs  *)
(* between two awaits (or one stream event callback).  DNS answers, fetch  *)
(* responses, upstream chunks and consumer reads are the environment's     *)
(* inputs, drawn from the small pools defined here.                        *)
(***************************************************************************)
EXTENDS Integers, Sequences, FiniteSets, TLC

(***************************************************************************)
(* Program constants                                                       *)
(***************************************************************************)
\* likes.get.ts:29  const FETCH_TIMEOUT_MS = 15_000
FETCH_TIMEOUT_MS == 15000
\* likes.get.ts:32  const MAX_SIZE = 10 * 1024 * 1024
MAX_SIZE == 10 * 1024 * 1024
\* likes.get.ts:35  const MAX_REDIRECTS = 5
MAX_REDIRECTS == 5
\* likes.get.ts:38  const REDIRECT_STATUSES = new Set([301, 302, 303, 307, 308])
REDIRECT_STATUSES == {301, 302, 303, 307, 308}
\* likes.get.ts:219 new Readable({...}) without highWaterMark: node's default
\* for a byte stream, 16 KiB
highWaterMark == 16 * 1024

(***************************************************************************)
(* Bounds of the model                                                     *)
(***************************************************************************)
\* upstream chunks delivered in one response body
MaxChunks == 3
\* periods of FETCH_TIMEOUT_MS the handler's clock counts before it saturates
MaxTicks == 2

(***************************************************************************)
(* URLs.  A parsed URL is a record of the parts the code reads             *)
(* (URL.parse: protocol, hostname) plus its path; a string URL.parse       *)
(* cannot parse has ok = FALSE.  A hostname is a sequence of dot-separated *)
(* labels, or an IPv4 literal of four octets, or an IPv6 literal of eight   *)
(* 16-bit parts (URL.parse gives it in brackets, a DNS answer bare; the     *)
(* code strips the brackets before it reads the address).                  *)
(***************************************************************************)
Name(labels) == [kind |-> "name", labels |-> labels, octets |-> <<>>]
IP4(a, b, c, d) == [kind |-> "ip4", labels |-> <<>>, octets |-> <<a, b, c, d>>]
IP6(parts) == [kind |-> "ip6", labels |-> <<>>, octets |-> parts]
NoHost == [kind |-> "none", labels |-> <<>>, octets |-> <<>>]

Url(protocol, host, path) ==
    [ok |-> TRUE, protocol |-> protocol, host |-> host, path |-> path]
BadUrl == [ok |-> FALSE, protocol |-> "", host |-> NoHost, path |-> "not a url"]

UrlImage == Url("https:", Name(<<"example", "com">>), "/x.png")
UrlPublicIp == Url("https:", IP4(93, 184, 216, 34), "/x.png")
UrlLoopback == Url("http:", IP4(127, 0, 0, 1), "/admin")
UrlMetadata == Url("http:", IP4(169, 254, 169, 254), "/x")
UrlFtp == Url("ftp:", Name(<<"example", "com">>), "/x")
UrlLocal == Url("http:", Name(<<"printer", "local">>), "/x")
UrlInternal == Url("https:", Name(<<"db", "corp", "internal">>), "/x")
UrlLocalhost == Url("http:", Name(<<"localhost">>), "/x")
\* http://localhost./x : a fully qualified name, with its trailing dot
UrlLocalhostDot == Url("http:", Name(<<"localhost", "">>), "/x")
\* file:///etc/passwd : a URL with an empty hostname
UrlFile == Url("file:", NoHost, "/etc/passwd")
\* http://[::1]/x, http://[fd00::1]/x, http://[::ffff:7f00:1]/x (the
\* IPv4-mapped 127.0.0.1), https://[2606:4700::1111]/x.png and
\* https://[::ffff:5db8:d822]/x.png (the IPv4-mapped 93.184.216.34)
UrlLoopback6 == Url("http:", IP6(<<0, 0, 0, 0, 0, 0, 0, 1>>), "/x")
UrlUniqueLocal6 == Url("http:", IP6(<<64768, 0, 0, 0, 0, 0, 0, 1>>), "/x")
UrlMappedLoopback == Url("http:", IP6(<<0, 0, 0, 0, 0, 65535, 32512, 1>>), "/x")
UrlPublic6 == Url("https:", IP6(<<9734, 18176, 0, 0, 0, 0, 0, 4369>>), "/x.png")
UrlMappedPublic == Url("https:", IP6(<<0, 0, 0, 0, 0, 65535, 23992, 55330>>), "/x.png")

\* ipaddr.js: IPv4.prototype.range() of a four-octet address; every special
\* range of its table, "unicast" otherwise.
Ipv4Range(o) ==
    CASE o[1] = 0 -> "unspecified"
      [] o = <<255, 255, 255, 255>> -> "broadcast"
      [] o[1] \in 224..239 -> "multicast"
      [] o[1] = 169 /\ o[2] = 254 -> "linkLocal"
      [] o[1] = 127 -> "loopback"
      [] o[1] = 100 /\ o[2] \in 64..127 -> "carrierGradeNat"
      [] o[1] = 10 -> "private"
      [] o[1] = 172 /\ o[2] \in 16..31 -> "private"
      [] o[1] = 192 /\ o[2] = 168 -> "private"
      [] o[1] = 192 /\ o[2] = 0 /\ o[3] \in {0, 2} -> "reserved"
      [] o[1] = 192 /\ o[2] = 88 /\ o[3] = 99 -> "reserved"
      [] o[1] = 198 /\ o[2] \in {18, 19} -> "reserved"
      [] o[1] = 198 /\ o[2] = 51 /\ o[3] = 100 -> "reserved"
      [] o[1] = 203 /\ o[2] = 0 /\ o[3] = 113 -> "reserved"
      [] o[1] \in 240..255 -> "reserved"
      [] OTHER -> "unicast"

\* ipaddr.js: IPv6.prototype.range() of an eight-part address: the special
\* ranges of its table, "unicast" otherwise.
Ipv6Range(p) ==
    CASE p = <<0, 0, 0, 0, 0, 0, 0, 0>> -> "unspecified"
      [] p = <<0, 0, 0, 0, 0, 0, 0, 1>> -> "loopback"
      [] p[1] \in 65152..65215 -> "linkLocal"
      [] p[1] \in 65280..65535 -> "multicast"
      [] p[1] \in 64512..65023 -> "uniqueLocal"
      [] SubSeq(p, 1, 6) = <<0, 0, 0, 0, 0, 65535>> -> "ipv4Mapped"
      [] SubSeq(p, 1, 6) = <<0, 0, 0, 0, 65535, 0>> -> "rfc6145"
      [] SubSeq(p, 1, 6) = <<100, 65435, 0, 0, 0, 0>> -> "rfc6052"
      [] p[1] = 8194 -> "6to4"
      [] p[1] = 8193 /\ p[2] = 0 -> "teredo"
      [] p[1] = 8193 /\ p[2] = 3512 -> "reserved"
      [] OTHER -> "unicast"

\* ipaddr.js: process(bare).range().  process() turns an IPv4-mapped IPv6
\* address into the IPv4 address of its last two parts.
ProcessedRange(host) ==
    IF host.kind = "ip4" THEN Ipv4Range(host.octets)
    ELSE IF Ipv6Range(host.octets) = "ipv4Mapped"
        THEN Ipv4Range(<<host.octets[7] \div 256, host.octets[7] % 256,
                         host.octets[8] \div 256, host.octets[8] % 256>>)
    ELSE Ipv6Range(host.octets)

\* ipaddr.isValid(bare): the host is an IP literal.
IsIpLiteral(host) == host.kind \in {"ip4", "ip6"}

\* Faulty variant of isPrivateIP: no address counts as private.
isPrivateIPNever(host) == FALSE

\* image-proxy.ts:85-90.  ipaddr.isValid(bare) is true of an IP literal only;
\* a non-IP string is "not private".
isPrivateIP(host) ==
    IF ~IsIpLiteral(host) THEN FALSE
    ELSE ProcessedRange(host) # "unicast"

\* hostname.endsWith('.' + suffix): the last label is the suffix and a label
\* stands before it.
EndsWithLabel(host, suffix) ==
    /\ host.kind = "name"
    /\ Len(host.labels) >= 2
    /\ host.labels[Len(host.labels)] = suffix

\* image-proxy.ts:97-122
isAllowedImageUrl(url) ==
    IF ~url.ok THEN FALSE
    ELSE IF url.protocol # "http:" /\ url.protocol # "https:" THEN FALSE
    ELSE IF url.host.kind = "none" THEN FALSE
    ELSE IF \/ url.host = Name(<<"localhost">>)
            \/ EndsWithLabel(url.host, "local")
            \/ EndsWithLabel(url.host, "internal") THEN FALSE
    ELSE IF isPrivateIP(url.host) THEN FALSE
    ELSE TRUE

(***************************************************************************)
(* DNS.  An answer of lookup(hostname, {all: true}) is an error or a set   *)
(* of addresses; the resolver is the environment and may answer anything,  *)
(* differently each time.                                                  *)
(***************************************************************************)
AddrPublic == IP4(93, 184, 216, 34)
AddrPrivate == IP4(10, 0, 0, 1)
DnsError == [error |-> TRUE, addrs |-> {}]
DnsAnswers == {DnsError} \cup {[error |-> FALSE, addrs |-> s] : s \in SUBSET {AddrPublic, AddrPrivate}}

\* image-proxy.ts:136-145: the part of resolveAndValidateHost before the
\* lookup.  "lookup" when the code goes on to DNS, else its return value.
resolveLiteral(url) ==
    IF ~url.ok \/ url.host.kind = "none" THEN "false"
    ELSE IF IsIpLiteral(url.host)
         THEN (IF isPrivateIP(url.host) THEN "false" ELSE "true")
    ELSE "lookup"

\* Faulty variant of resolveAnswer: one public address is enough.
resolveAnswerAnyPublic(answer) ==
    IF answer.error THEN FALSE
    ELSE \E a \in answer.addrs : ~isPrivateIP(a)

\* image-proxy.ts:147-157: the return value once the lookup has settled.
resolveAnswer(answer) ==
    IF answer.error THEN FALSE
    ELSE IF Cardinality(answer.addrs) = 0 THEN FALSE
    ELSE \A a \in answer.addrs : ~isPrivateIP(a)

\* image-proxy.ts:135-158: resolveAndValidateHost(url), given the answer the
\* resolver would give for its hostname.
resolveAndValidateHost(url, answer) ==
    CASE resolveLiteral(url) = "true" -> TRUE
      [] resolveLiteral(url) = "false" -> FALSE
      [] OTHER -> resolveAnswer(answer)

(***************************************************************************)
(* Signatures.  An HMAC-SHA256 tag is modelled as the pair it is computed  *)
(* from (a collision-free MAC), hex-encoded to 64 characters.              *)
(***************************************************************************)
HexDigestLen == 64

\* image-proxy.ts:164-166
signImageUrl(url, secret) == [len |-> HexDigestLen, tag |-> <<"hmac", secret, url>>]

\* The empty string given as a signature, and a string too short for a digest.
EmptySig == [len |-> 0, tag |-> <<>>]
ShortSig == [len |-> 8, tag |-> <<"deadbeef">>]

\* Faulty variant of verifyImageUrl: empty arguments are not turned away.
verifyImageUrlNoEmptyCheck(url, signature, secret) ==
    LET expected == signImageUrl(url, secret)
    IN  expected.len = signature.len /\ expected = signature

\* Faulty variant of verifyImageUrl: only the lengths are compared.
verifyImageUrlLengthOnly(url, signature, secret) ==
    IF signature.len = 0 \/ secret = "" THEN FALSE
    ELSE signImageUrl(url, secret).len = signature.len

\* image-proxy.ts:177-182.  !signature and !secret are true of empty strings.
verifyImageUrl(url, signature, secret) ==
    IF signature.len = 0 \/ secret = "" THEN FALSE
    ELSE LET expected == signImageUrl(url, secret)
         IN  expected.len = signature.len /\ expected = signature

(***************************************************************************)
(* toProxiedImageUrl works on the text of an image reference.  A text is   *)
(* its leading characters, as far as the code tests them ("empty" for the  *)
(* empty string, "#", "data:", "//", else ""), and the URL the rest reads   *)
(* as: for "" what URL.parse makes of the text, for "//" the authority and *)
(* path that follow the slashes.  A Url record used as a string elsewhere   *)
(* in this module is the text Str("", url).                                 *)
(***************************************************************************)
Str(lead, rest) == [lead |-> lead, rest |-> rest]
EmptyString == Str("empty", BadUrl)

\* image-proxy.ts:32-66
TRUSTED_IMAGE_DOMAINS ==
    {<<"npmx", "dev">>,
     <<"raw", "githubusercontent", "com">>, <<"github", "com">>,
     <<"user-images", "githubusercontent", "com">>,
     <<"avatars", "githubusercontent", "com">>,
     <<"repository-images", "githubusercontent", "com">>,
     <<"github", "githubassets", "com">>,
     <<"objects", "githubusercontent", "com">>,
     <<"gitlab", "com">>,
     <<"cdn", "jsdelivr", "net">>, <<"unpkg", "com">>,
     <<"img", "shields", "io">>, <<"shields", "io">>, <<"badge", "fury", "io">>,
     <<"badgen", "net">>, <<"flat", "badgen", "net">>, <<"codecov", "io">>,
     <<"coveralls", "io">>, <<"david-dm", "org">>, <<"snyk", "io">>,
     <<"app", "fossa", "com">>, <<"api", "codeclimate", "com">>,
     <<"bundlephobia", "com">>, <<"packagephobia", "com">>}

\* hostname === domain || hostname.endsWith('.' + domain), on labels
HostMatches(labels, domain) ==
    /\ Len(labels) >= Len(domain)
    /\ SubSeq(labels, Len(labels) - Len(domain) + 1, Len(labels)) = domain

\* Faulty variant of isTrustedImageDomain: subdomains are not trusted.
isTrustedImageDomainExact(parsed) ==
    parsed.ok /\ parsed.host.kind = "name" /\ parsed.host.labels \in TRUSTED_IMAGE_DOMAINS

\* image-proxy.ts:71-79, of the URL the text parses to
isTrustedImageDomain(parsed) ==
    IF ~parsed.ok \/ parsed.host.kind = "none" THEN FALSE
    ELSE \E domain \in TRUSTED_IMAGE_DOMAINS :
            parsed.host.kind = "name" /\ HostMatches(parsed.host.labels, domain)

\* Faulty variant of encodeURIComponent: the text is embedded as it is.
encodeURIComponentNone(text) == [text |-> text, escapes |-> 0]

\* image-proxy.ts:215  encodeURIComponent(normalizedUrl): the text with its
\* reserved characters percent-escaped once.
encodeURIComponent(text) == [text |-> text, escapes |-> 1]

\* What toProxiedImageUrl returns: a text handed back, or the proxy URL
\* /api/registry/image-proxy?url=...&sig=... with its two parameters.
Plain(text) ==
    [proxied |-> FALSE, str |-> text,
     url |-> [text |-> EmptyString, escapes |-> 0], sig |-> EmptySig]
ProxyUrl(encoded, signature) ==
    [proxied |-> TRUE, str |-> EmptyString, url |-> encoded, sig |-> signature]

\* image-proxy.ts:199  url.startsWith('//') ? `https:${url}` : url
normalizedUrl(url) ==
    IF url.lead = "//" THEN Str("", [url.rest EXCEPT !.protocol = "https:"]) ELSE url

\* Faulty variant of toProxiedImageUrl: the text as given is signed, not the
\* normalized one.
toProxiedImageUrlSignsInput(url, secret) ==
    LET normalized == normalizedUrl(url)
        parsed == IF normalized.lead = "" THEN normalized.rest ELSE BadUrl
    IN  IF url.lead \in {"empty", "#", "data:"} THEN Plain(url)
        ELSE IF ~parsed.ok \/ parsed.protocol \notin {"http:", "https:"} THEN Plain(url)
        ELSE IF isTrustedImageDomain(parsed) THEN Plain(normalized)
        ELSE ProxyUrl(encodeURIComponent(normalized), signImageUrl(url.rest, secret))

\* image-proxy.ts:192-216
toProxiedImageUrl(url, secret) ==
    LET normalized == normalizedUrl(url)
        parsed == IF normalized.lead = "" THEN normalized.rest ELSE BadUrl
    IN  IF url.lead \in {"empty", "#", "data:"} THEN Plain(url)
        ELSE IF ~parsed.ok \/ parsed.protocol \notin {"http:", "https:"} THEN Plain(url)
        ELSE IF isTrustedImageDomain(parsed) THEN Plain(normalized)
        ELSE ProxyUrl(encodeURIComponent(normalized), signImageUrl(parsed, secret))

\* likes.get.ts:57-60: getQuery(event) on the query of a proxy URL.  The
\* query is split at '&' before a value is percent-decoded, so a value
\* embedded without escapes ends at its first '&'; a value escaped more than
\* once is still escaped after the one decoding.
PathBeforeAmp(path) == IF path = "/i?a=1&b=2" THEN "/i?a=1" ELSE path
decodeQueryValue(encoded) ==
    CASE encoded.escapes = 1 -> encoded.text
      [] encoded.escapes = 0 ->
            Str(encoded.text.lead,
                [encoded.text.rest EXCEPT !.path = PathBeforeAmp(@)])
      [] OTHER -> Str("%", encoded.text.rest)
getQuery(proxyUrl) ==
    [url |-> decodeQueryValue(proxyUrl.url), sig |-> proxyUrl.sig]

\* image-proxy.ts:178-179: the HMACs one call of verifyImageUrl computes.
verifyMacs(signature, secret) ==
    IF signature.len = 0 \/ secret = "" THEN 0 ELSE 1

(***************************************************************************)
(* Upstream responses, as the handler reads them.                          *)
(***************************************************************************)
\* A header that is absent is the empty sequence, a present one <<value>>.
\* A Location value is an absolute URL, a path relative to the current URL,
\* or a string new URL() cannot parse.
NoHeader == <<>>
LocationAbs(u) == <<[kind |-> "abs", url |-> u, path |-> ""]>>
LocationRel(p) == <<[kind |-> "rel", url |-> BadUrl, path |-> p]>>
LocationBad == <<[kind |-> "bad", url |-> BadUrl, path |-> ""]>>

\* A content type is its sequence of tokens: image/svg+xml is
\* <<"image", "/", "svg+xml">>.
TypePng == <<"image", "/", "png">>
TypeSvg == <<"image", "/", "svg+xml">>
\* The same media type as an upstream may spell it: image/SVG+XML.
TypeSvgUpper == <<"image", "/", "SVG+XML">>
TypeHtml == <<"text", "/", "html">>
TypeOctetStream == <<"application", "/", "octet-stream">>

RequestUrls == {UrlImage, UrlPublicIp, UrlLoopback, UrlFtp, BadUrl}
Secrets == {"", "k1"}
RequestSigs ==
    {signImageUrl(u, k) : u \in {UrlImage, UrlPublicIp, UrlLoopback, UrlFtp, BadUrl}, k \in {"k1", "k2"}}
        \cup {EmptySig, ShortSig}
Queries ==
    [url : {NoHeader} \cup {<<u>> : u \in RequestUrls},
     sig : {NoHeader} \cup {<<s>> : s \in RequestSigs}]

Locations ==
    {NoHeader, LocationBad, LocationRel("/r.png")}
        \cup {LocationAbs(u) : u \in {UrlImage, UrlPublicIp, UrlLoopback}}
Responses ==
    [status : {200, 299, 300, 302, 404, 500},
     location : Locations,
     contentType : {NoHeader, <<TypePng>>, <<TypeSvg>>, <<TypeSvgUpper>>, <<TypeHtml>>},
     contentLength : {NoHeader, <<MAX_SIZE>>, <<MAX_SIZE + 1>>},
     body : BOOLEAN]

\* likes.get.ts:129  new URL(location, currentUrl).href
ResolveLocation(location, base) ==
    CASE location.kind = "abs" -> location.url
      [] location.kind = "rel" -> [base EXCEPT !.path = location.path]
      [] OTHER -> BadUrl

\* likes.get.ts:179  contentType.startsWith('image/')
StartsWithImage(ct) == Len(ct) >= 2 /\ ct[1] = "image" /\ ct[2] = "/"
\* likes.get.ts:179  contentType.includes('svg'), a case-sensitive search
IncludesSvg(ct) == \E k \in 1..Len(ct) : ct[k] \in {"svg", "svg+xml"}

(***************************************************************************)
(* State                                                                   *)
(***************************************************************************)
VARIABLES
    imageProxySecret,   \* useRuntimeConfig().imageProxySecret
    req,                \* the handler's frame: pc, currentUrl, redirectUrl, i,
                        \* response, error, headers, and the redirect
                        \* option and the signal of the latest fetch
    clock,              \* hopAge: ms since the latest fetch was issued;
                        \* elapsed: ms the handler has spent suspended
    bytesRead,          \* likes.get.ts:216
    upstream,           \* likes.get.ts:218  Readable.fromWeb(response.body)
    limited,            \* likes.get.ts:219  the outbound Readable
    hist,               \* history of the request, read by the properties only
    call,               \* the latest direct call of a function of
                        \* image-proxy.ts: its arguments and what it returned
    scroller,           \* useScrollToTop.ts: rafId, isScrolling, the page's
                        \* scroll position and the frames the browser holds
    card                \* LikeCard.vue: user, likesData, isLikeActionPending
                        \* and the calls of togglePackageLike in flight

vars ==
    <<imageProxySecret, req, clock, bytesRead, upstream, limited, hist, call,
      scroller, card>>
serverVars == <<imageProxySecret, req, clock, bytesRead, upstream, limited, hist, call>>
relayVars == <<bytesRead, upstream, limited>>

NoError == [statusCode |-> 0, message |-> ""]
NoResponse == [status |-> 0, body |-> "none"]
NoHeaders == [names |-> {}, contentType |-> NoHeader]
NoStream == [state |-> "none", flowing |-> FALSE]
NoLimited ==
    [state |-> "none", buffer |-> <<>>, flowing |-> FALSE, reading |-> FALSE,
     ended |-> FALSE, endEmitted |-> FALSE, error |-> ""]

\* The history: the query as it arrived; the URL that last passed
\* isAllowedImageUrl and the one that last passed resolveAndValidateHost;
\* the last lookup that settled; the lookups and fetches issued; whether
\* the Location header line 123 last read was absent or present; the
\* Content-Type line 175 read; the Content-Length line 188 read; the chunks
\* upstream emitted and those handed to the consumer.
NoHistory ==
    [query |-> [url |-> NoHeader, sig |-> NoHeader],
     guardOk |-> BadUrl, hostOk |-> BadUrl,
     lastLookup |-> [url |-> BadUrl, answer |-> DnsError],
     dnsLookups |-> 0, nFetches |-> 0, location |-> "",
     contentType |-> NoHeader, declared |-> NoHeader,
     sent |-> <<>>, delivered |-> <<>>]

\* No call yet.  `answer` is what the resolver replies to a call that looks
\* its host up, `lookups` the lookups the call issued, `macs` the HMACs it
\* computed; `text` and `returned` are the argument and the return value of
\* toProxiedImageUrl.
NoCall ==
    [fn |-> "", url |-> BadUrl, signature |-> EmptySig, secret |-> "",
     answer |-> DnsError, lookups |-> 0, macs |-> 0, result |-> FALSE,
     text |-> EmptyString, returned |-> Plain(EmptyString)]

\* useScrollToTop.ts:19-20: rafId is null (no frame id is 0), nothing is
\* scrolling; the page is at its top and no frame is requested.
NoRaf == 0
IdleScroller ==
    [rafId |-> NoRaf, isScrolling |-> FALSE, frames |-> {}, scrollY |-> 0,
     preferReducedMotion |-> FALSE]

\* LikeCard.vue:16-25: nobody is logged in, likesData holds useFetch's
\* default, no like action is pending.  `calls` are the calls of
\* togglePackageLike that have not settled, `sent` counts all calls made.
NoUser == ""
IdleCard ==
    [user |-> NoUser, likesData |-> [totalLikes |-> 0, userHasLiked |-> FALSE],
     isLikeActionPending |-> FALSE, authModalOpen |-> FALSE,
     calls |-> <<>>, sent |-> 0]

Init ==
    /\ call = NoCall
    /\ scroller = IdleScroller
    /\ card = IdleCard
    /\ imageProxySecret \in Secrets
    /\ req = [pc |-> "idle", currentUrl |-> BadUrl, redirectUrl |-> BadUrl, i |-> 0,
              response |-> NoResponse, error |-> NoError, headers |-> NoHeaders,
              redirect |-> "", signal |-> "none"]
    /\ clock = [hopAge |-> 0, elapsed |-> 0]
    /\ bytesRead = 0
    /\ upstream = NoStream
    /\ limited = NoLimited
    /\ hist = NoHistory

(***************************************************************************)
(* The handler, likes.get.ts:56-254.  The operators below are the pieces   *)
(* of code several paths share; r and g are the frame and the history as   *)
(* the path has left them so far.                                          *)
(***************************************************************************)
\* throw createError({statusCode, message}): the request ends with that status.
Throw(r, g, statusCode, message) ==
    /\ req' = [r EXCEPT !.pc = "done",
                        !.error = [statusCode |-> statusCode, message |-> message]]
    /\ hist' = g
    /\ UNCHANGED <<clock, relayVars>>

\* Faulty variant of CatchUnknown: the error reaches the caller as it was
\* thrown, an unhandled error that the server answers with 500.
CatchUnknownUnhandled(r, g) == Throw(r, g, 500, "fetch failed")

\* likes.get.ts:243-253: an error without statusCode thrown inside the try.
CatchUnknown(r, g) == Throw(r, g, 502, "Failed to proxy image.")

\* Faulty variant of IssueFetch: one timeout for the whole loop, not restarted.
IssueFetchSharedTimer(r, g, url, idx) ==
    /\ req' = [r EXCEPT !.pc = "fetch", !.currentUrl = url, !.i = idx,
                        !.redirect = "manual", !.signal = "armed"]
    /\ hist' = [g EXCEPT !.nFetches = @ + 1]
    /\ UNCHANGED <<clock, relayVars>>

\* likes.get.ts:110-117: fetch(currentUrl, {redirect: 'manual',
\* signal: AbortSignal.timeout(FETCH_TIMEOUT_MS)}) and the await on it.
IssueFetch(r, g, url, idx) ==
    /\ req' = [r EXCEPT !.pc = "fetch", !.currentUrl = url, !.i = idx,
                        !.redirect = "manual", !.signal = "armed"]
    /\ hist' = [g EXCEPT !.nFetches = @ + 1]
    /\ clock' = [clock EXCEPT !.hopAge = 0]
    /\ UNCHANGED relayVars

\* Faulty variant of StartRelay: the upstream Content-Length is forwarded.
StartRelayForwardLength(r, g, contentType) ==
    /\ req' = [r EXCEPT !.pc = "stream",
                        !.response.body = "locked",
                        !.headers = [names |-> {"Content-Type", "Cache-Control",
                                                "X-Content-Type-Options",
                                                "Content-Security-Policy",
                                                "Content-Length"},
                                     contentType |-> contentType]]
    /\ hist' = g
    /\ bytesRead' = 0
    /\ upstream' = [state |-> "open", flowing |-> TRUE]
    /\ limited' = [NoLimited EXCEPT !.state = "open", !.flowing = TRUE]
    /\ UNCHANGED clock

\* likes.get.ts:204-242: the success headers, the two streams and their
\* listeners, and sendStream piping `limited` into the response.
StartRelay(r, g, contentType) ==
    /\ req' = [r EXCEPT !.pc = "stream",
                        !.response.body = "locked",
                        !.headers = [names |-> {"Content-Type", "Cache-Control",
                                                "X-Content-Type-Options",
                                                "Content-Security-Policy"},
                                     contentType |-> contentType]]
    /\ hist' = g
    /\ bytesRead' = 0
    /\ upstream' = [state |-> "open", flowing |-> TRUE]
    /\ limited' = [NoLimited EXCEPT !.state = "open", !.flowing = TRUE]
    /\ UNCHANGED clock

\* await response.body?.cancel(): the body's state afterwards.  Cancelling a
\* body that the abort signal has errored rejects.
CancelBody(r) ==
    [r EXCEPT !.response.body = IF @ = "open" THEN "cancelled" ELSE @]

\* The headers AfterLoop reads are those of a final response; the last
\* response of an exhausted loop is a redirect, whose headers it never reads.
RedirectHeaders == [contentType |-> NoHeader, contentLength |-> NoHeader]

\* Faulty variant of AfterLoop: the Content-Length header is not checked.
AfterLoopNoLengthCheck(r, g, resp) ==
    LET status == r.response.status
        contentType == IF resp.contentType = NoHeader THEN TypeOctetStream
                       ELSE resp.contentType[1]
        typed == [g EXCEPT !.contentType = <<contentType>>]
        read == [typed EXCEPT !.declared = resp.contentLength]
    IN  IF status = 0
            THEN Throw(r, g, 502, "Failed to fetch image.")
        ELSE IF status \in REDIRECT_STATUSES
            THEN Throw(CancelBody(r), g, 502, "Too many redirects.")
        ELSE IF status \notin 200..299
            THEN Throw(CancelBody(r), g, IF status = 404 THEN 404 ELSE 502,
                       "Failed to fetch image: status")
        ELSE IF ~StartsWithImage(contentType) \/ IncludesSvg(contentType)
            THEN Throw(CancelBody(r), typed, 400, "URL does not point to an allowed image type.")
        ELSE IF r.response.body = "none"
            THEN Throw(r, read, 502, "No response body from upstream.")
        ELSE StartRelay(r, read, contentType)

\* Faulty variant of AfterLoop: response.ok is not checked.
AfterLoopAnyStatus(r, g, resp) ==
    LET status == r.response.status
        contentType == IF resp.contentType = NoHeader THEN TypeOctetStream
                       ELSE resp.contentType[1]
        typed == [g EXCEPT !.contentType = <<contentType>>]
        read == [typed EXCEPT !.declared = resp.contentLength]
    IN  IF status = 0
            THEN Throw(r, g, 502, "Failed to fetch image.")
        ELSE IF status \in REDIRECT_STATUSES
            THEN Throw(CancelBody(r), g, 502, "Too many redirects.")
        ELSE IF ~StartsWithImage(contentType) \/ IncludesSvg(contentType)
            THEN Throw(CancelBody(r), typed, 400, "URL does not point to an allowed image type.")
        ELSE IF resp.contentLength # NoHeader /\ resp.contentLength[1] > MAX_SIZE
            THEN Throw(CancelBody(r), read, 413, "Image too large.")
        ELSE IF r.response.body = "none"
            THEN Throw(r, read, 502, "No response body from upstream.")
        ELSE StartRelay(r, read, contentType)

\* Faulty variant of AfterLoop: a declared length equal to MAX_SIZE is
\* rejected too.
AfterLoopLengthInclusive(r, g, resp) ==
    LET status == r.response.status
        contentType == IF resp.contentType = NoHeader THEN TypeOctetStream
                       ELSE resp.contentType[1]
        typed == [g EXCEPT !.contentType = <<contentType>>]
        read == [typed EXCEPT !.declared = resp.contentLength]
    IN  IF status = 0
            THEN Throw(r, g, 502, "Failed to fetch image.")
        ELSE IF status \in REDIRECT_STATUSES
            THEN Throw(CancelBody(r), g, 502, "Too many redirects.")
        ELSE IF status \notin 200..299
            THEN Throw(CancelBody(r), g, IF status = 404 THEN 404 ELSE 502,
                       "Failed to fetch image: status")
        ELSE IF ~StartsWithImage(contentType) \/ IncludesSvg(contentType)
            THEN Throw(CancelBody(r), typed, 400, "URL does not point to an allowed image type.")
        ELSE IF resp.contentLength # NoHeader /\ resp.contentLength[1] >= MAX_SIZE
            THEN Throw(CancelBody(r), read, 413, "Image too large.")
        ELSE IF r.response.body = "none"
            THEN Throw(r, read, 502, "No response body from upstream.")
        ELSE StartRelay(r, read, contentType)

\* likes.get.ts:151-242: after the redirect loop.
AfterLoop(r, g, resp) ==
    LET status == r.response.status
        contentType == IF resp.contentType = NoHeader THEN TypeOctetStream
                       ELSE resp.contentType[1]
        typed == [g EXCEPT !.contentType = <<contentType>>]
        read == [typed EXCEPT !.declared = resp.contentLength]
    IN  IF status = 0
            THEN Throw(r, g, 502, "Failed to fetch image.")
        ELSE IF status \in REDIRECT_STATUSES
            THEN Throw(CancelBody(r), g, 502, "Too many redirects.")
        ELSE IF status \notin 200..299
            THEN Throw(CancelBody(r), g, IF status = 404 THEN 404 ELSE 502,
                       "Failed to fetch image: status")
        ELSE IF ~StartsWithImage(contentType) \/ IncludesSvg(contentType)
            THEN Throw(CancelBody(r), typed, 400, "URL does not point to an allowed image type.")
        ELSE IF resp.contentLength # NoHeader /\ resp.contentLength[1] > MAX_SIZE
            THEN Throw(CancelBody(r), read, 413, "Image too large.")
        ELSE IF r.response.body = "none"
            THEN Throw(r, read, 502, "No response body from upstream.")
        ELSE StartRelay(r, read, contentType)

\* Faulty variant of FollowRedirect: the loop has no bound.
FollowRedirectUnbounded(r, g) ==
    IF r.response.body = "errored"
        THEN CatchUnknown(r, g)
    ELSE IssueFetch(CancelBody(r), g, r.redirectUrl, r.i + 1)

\* Faulty variant of FollowRedirect: the loop runs while i < MAX_REDIRECTS.
FollowRedirectOneShort(r, g) ==
    IF r.response.body = "errored"
        THEN CatchUnknown(r, g)
    ELSE IF r.i + 1 < MAX_REDIRECTS
        THEN IssueFetch(CancelBody(r), g, r.redirectUrl, r.i + 1)
    ELSE AfterLoop([CancelBody(r) EXCEPT !.currentUrl = r.redirectUrl, !.i = r.i + 1],
                   g, RedirectHeaders)

\* likes.get.ts:146-149 and the loop's next iteration: the redirect target
\* has passed both checks.
FollowRedirect(r, g) ==
    IF r.response.body = "errored"
        THEN CatchUnknown(r, g)
    ELSE IF r.i + 1 <= MAX_REDIRECTS
        THEN IssueFetch(CancelBody(r), g, r.redirectUrl, r.i + 1)
    ELSE AfterLoop([CancelBody(r) EXCEPT !.currentUrl = r.redirectUrl, !.i = r.i + 1],
                   g, RedirectHeaders)

\* likes.get.ts:95-100 and 139-144: resolveAndValidateHost(url) is called.
\* An IP literal is decided at once; a name suspends the handler on the
\* lookup (image-proxy.ts:151).
StartLookup(r, g, at) ==
    /\ req' = [r EXCEPT !.pc = at]
    /\ hist' = [g EXCEPT !.dnsLookups = @ + 1]
    /\ UNCHANGED <<clock, relayVars>>

\* Faulty variant of SignatureAccepted: only the secret's presence is checked.
SignatureAcceptedAnySig(url, sig) ==
    imageProxySecret # ""

\* likes.get.ts:77-78: the signature gate.
SignatureAccepted(url, sig) ==
    imageProxySecret # "" /\ verifyImageUrl(url, sig, imageProxySecret)

\* Faulty variant of HandleRequest: the URL guard runs before the signature
\* check.
HandleRequestGuardFirst(query) ==
    /\ req.pc = "idle"
    /\ LET url == IF query.url = NoHeader THEN BadUrl ELSE query.url[1]
           sig == IF query.sig = NoHeader THEN EmptySig ELSE query.sig[1]
           arrived == [hist EXCEPT !.query = query]
           guardedHist == [arrived EXCEPT !.guardOk = url]
           r == [req EXCEPT !.currentUrl = url]
       IN  IF query.url = NoHeader
               THEN Throw(req, arrived, 400, "Missing required url query parameter.")
           ELSE IF sig.len = 0
               THEN Throw(req, arrived, 400, "Missing required sig query parameter.")
           ELSE IF ~isAllowedImageUrl(url)
               THEN Throw(r, arrived, 400, "Invalid or disallowed image URL.")
           ELSE IF ~SignatureAccepted(url, sig)
               THEN Throw(req, arrived, 403, "Invalid signature.")
           ELSE CASE resolveLiteral(url) = "false" ->
                        Throw(r, guardedHist, 400, "Invalid or disallowed image URL.")
                  [] resolveLiteral(url) = "true" ->
                        IssueFetch(r, [guardedHist EXCEPT !.hostOk = url], url, 0)
                  [] OTHER -> StartLookup(r, guardedHist, "resolveInitial")
    /\ UNCHANGED <<imageProxySecret, call, scroller, card>>

\* likes.get.ts:56-100: the request arrives; the code up to the first await
\* (the lookup of line 95) or, for an IP literal, up to the first fetch.
HandleRequest(query) ==
    /\ req.pc = "idle"
    /\ LET url == IF query.url = NoHeader THEN BadUrl ELSE query.url[1]
           sig == IF query.sig = NoHeader THEN EmptySig ELSE query.sig[1]
           arrived == [hist EXCEPT !.query = query]
           guardedHist == [arrived EXCEPT !.guardOk = url]
           r == [req EXCEPT !.currentUrl = url]
       IN  IF query.url = NoHeader
               THEN Throw(req, arrived, 400, "Missing required url query parameter.")
           ELSE IF sig.len = 0
               THEN Throw(req, arrived, 400, "Missing required sig query parameter.")
           ELSE IF ~SignatureAccepted(url, sig)
               THEN Throw(req, arrived, 403, "Invalid signature.")
           ELSE IF ~isAllowedImageUrl(url)
               THEN Throw(r, arrived, 400, "Invalid or disallowed image URL.")
           ELSE CASE resolveLiteral(url) = "false" ->
                        Throw(r, guardedHist, 400, "Invalid or disallowed image URL.")
                  [] resolveLiteral(url) = "true" ->
                        IssueFetch(r, [guardedHist EXCEPT !.hostOk = url], url, 0)
                  [] OTHER -> StartLookup(r, guardedHist, "resolveInitial")
    /\ UNCHANGED <<imageProxySecret, call, scroller, card>>

\* likes.get.ts:95-110: the lookup of the request's host has settled.
ResolveInitialReply(answer) ==
    /\ req.pc = "resolveInitial"
    /\ LET settled == [hist EXCEPT !.lastLookup = [url |-> req.currentUrl,
                                                    answer |-> answer]]
       IN  IF resolveAnswer(answer)
               THEN IssueFetch(req, [settled EXCEPT !.hostOk = req.currentUrl],
                               req.currentUrl, 0)
           ELSE Throw(req, settled, 400, "Invalid or disallowed image URL.")
    /\ UNCHANGED <<imageProxySecret, call, scroller, card>>

\* likes.get.ts:119-126: what the loop learns of the Location header.  It is
\* read only of a response whose status is a redirect.
LocationRead(resp) ==
    IF resp.status \notin REDIRECT_STATUSES THEN hist.location
    ELSE IF resp.location = NoHeader THEN "absent" ELSE "present"

\* Faulty variant of FetchResponse: a redirect is followed without validating its
\* target.
FetchResponseUnvalidated(resp) ==
    /\ req.pc = "fetch"
    /\ LET r == [req EXCEPT !.response = [status |-> resp.status,
                                          body |-> IF resp.body THEN "open" ELSE "none"]]
           target == ResolveLocation(resp.location[1], req.currentUrl)
           located == [hist EXCEPT !.location = LocationRead(resp)]
       IN  IF resp.status \notin REDIRECT_STATUSES \/ resp.location = NoHeader
               THEN AfterLoop(r, located, resp)
           ELSE IF ~target.ok
               THEN CatchUnknown(r, located)
           ELSE FollowRedirect([r EXCEPT !.redirectUrl = target], located)
    /\ UNCHANGED <<imageProxySecret, call, scroller, card>>

\* likes.get.ts:110-144, then 146-242: a response arrives for the fetch in
\* flight.
FetchResponse(resp) ==
    /\ req.pc = "fetch"
    /\ LET r == [req EXCEPT !.response = [status |-> resp.status,
                                          body |-> IF resp.body THEN "open" ELSE "none"]]
           target == ResolveLocation(resp.location[1], req.currentUrl)
           rt == [r EXCEPT !.redirectUrl = target]
           located == [hist EXCEPT !.location = LocationRead(resp)]
           guardedHist == [located EXCEPT !.guardOk = target]
       IN  IF resp.status \notin REDIRECT_STATUSES \/ resp.location = NoHeader
               THEN AfterLoop(r, located, resp)
           ELSE IF ~target.ok
               THEN CatchUnknown(r, located)
           ELSE IF ~isAllowedImageUrl(target)
               THEN Throw(rt, located, 400, "Redirect to disallowed URL.")
           ELSE CASE resolveLiteral(target) = "false" ->
                        Throw(rt, guardedHist, 400, "Redirect to disallowed URL.")
                  [] resolveLiteral(target) = "true" ->
                        FollowRedirect(rt, [guardedHist EXCEPT !.hostOk = target])
                  [] OTHER -> StartLookup(rt, guardedHist, "resolveRedirect")
    /\ UNCHANGED <<imageProxySecret, call, scroller, card>>

\* Faulty variant of ResolveRedirectReply: the lookup's result is not checked.
ResolveRedirectReplyIgnored(answer) ==
    /\ req.pc = "resolveRedirect"
    /\ FollowRedirect(req, [hist EXCEPT !.lastLookup = [url |-> req.redirectUrl,
                                                        answer |-> answer]])
    /\ UNCHANGED <<imageProxySecret, call, scroller, card>>

\* likes.get.ts:139-149: the lookup of a redirect target's host has settled.
ResolveRedirectReply(answer) ==
    /\ req.pc = "resolveRedirect"
    /\ LET settled == [hist EXCEPT !.lastLookup = [url |-> req.redirectUrl,
                                                    answer |-> answer]]
       IN  IF resolveAnswer(answer)
               THEN FollowRedirect(req, [settled EXCEPT !.hostOk = req.redirectUrl])
           ELSE Throw(req, settled, 400, "Redirect to disallowed URL.")
    /\ UNCHANGED <<imageProxySecret, call, scroller, card>>

\* Faulty variant of FetchFails: a fetch that rejects is issued again.
FetchFailsRetry ==
    /\ req.pc = "fetch"
    /\ IssueFetch(req, hist, req.currentUrl, req.i)
    /\ UNCHANGED <<imageProxySecret, call, scroller, card>>

\* likes.get.ts:110, 243-253: the fetch in flight rejects (connection error).
FetchFails ==
    /\ req.pc = "fetch"
    /\ CatchUnknown(req, hist)
    /\ UNCHANGED <<imageProxySecret, call, scroller, card>>

(***************************************************************************)
(* Time.  One tick is a period of FETCH_TIMEOUT_MS.  An armed signal fires *)
(* once its period is over: time does not pass beyond it before it has.    *)
(***************************************************************************)
SignalDue == req.signal = "armed" /\ clock.hopAge >= FETCH_TIMEOUT_MS

\* The handler is suspended on a lookup or a fetch and time passes.
TickHandler ==
    /\ req.pc \in {"resolveInitial", "fetch", "resolveRedirect"}
    /\ ~SignalDue
    /\ clock.elapsed < MaxTicks * FETCH_TIMEOUT_MS
    /\ clock' = [elapsed |-> clock.elapsed + FETCH_TIMEOUT_MS,
                 hopAge |-> IF req.pc = "resolveInitial" THEN clock.hopAge
                            ELSE clock.hopAge + FETCH_TIMEOUT_MS]
    /\ UNCHANGED <<imageProxySecret, call, scroller, card, req, relayVars, hist>>

\* likes.get.ts:116: the signal of the fetch in flight fires; the fetch
\* rejects with a TimeoutError, which the catch block turns into a 502.
FetchTimeout ==
    /\ req.pc = "fetch"
    /\ SignalDue
    /\ CatchUnknown([req EXCEPT !.signal = "fired"], hist)
    /\ UNCHANGED <<imageProxySecret, call, scroller, card>>

\* likes.get.ts:116: the signal fires while the handler awaits the lookup of
\* a redirect target; the redirect response's body, still open, is errored.
RedirectBodyTimeout ==
    /\ req.pc = "resolveRedirect"
    /\ SignalDue
    /\ req' = [req EXCEPT !.signal = "fired",
                          !.response.body = IF @ = "open" THEN "errored" ELSE @]
    /\ UNCHANGED <<imageProxySecret, call, scroller, card, clock, relayVars, hist>>

(***************************************************************************)
(* The relay, likes.get.ts:214-242.  `upstream` and `limited` are node     *)
(* Readable streams; the operators below are the parts of node's Readable  *)
(* the relay depends on.  A chunk is modelled by its length in bytes.      *)
(***************************************************************************)
RECURSIVE SumSeq(_)
SumSeq(q) == IF q = <<>> THEN 0 ELSE Head(q) + SumSeq(Tail(q))

ChunkSizes == {1, highWaterMark, MAX_SIZE - highWaterMark}

\* readable.destroy(err): a stream that is already destroyed, or has ended
\* and closed, keeps its state.
destroy(stream, err) ==
    IF stream.state # "open" THEN stream
    ELSE [stream EXCEPT !.state = "destroyed", !.error = err]

\* limited.push(chunk), node's readableAddChunk and addChunk.  The result is
\* the stream afterwards, what push returns, and the chunks handed straight
\* to the consumer (a flowing stream with an empty buffer emits 'data' at
\* once instead of buffering).
push(stream, chunk) ==
    IF stream.state # "open"
        THEN [stream |-> stream, ret |-> FALSE, emitted |-> <<>>]
    ELSE IF stream.ended
        THEN [stream |-> destroy(stream, "push after EOF"), ret |-> FALSE, emitted |-> <<>>]
    ELSE IF stream.flowing /\ stream.buffer = <<>>
        THEN [stream |-> [stream EXCEPT !.reading = FALSE], ret |-> TRUE,
              emitted |-> <<chunk>>]
    ELSE LET after == [stream EXCEPT !.reading = FALSE, !.buffer = Append(@, chunk)]
         IN  [stream |-> after, ret |-> SumSeq(after.buffer) < highWaterMark,
              emitted |-> <<>>]

\* limited.push(null), node's onEofChunk.
pushNull(stream) ==
    IF stream.ended THEN stream
    ELSE [stream EXCEPT !.ended = TRUE, !.reading = FALSE]

\* Faulty variant of OnData: the chunk is pushed before the limit is checked.
OnDataPushFirst(chunk) ==
    LET total == bytesRead + chunk
        pushed == push(limited, chunk)
    IN  IF total > MAX_SIZE
            THEN [bytesRead |-> total,
                  upstream |-> [upstream EXCEPT !.state = "destroyed"],
                  limited |-> destroy(pushed.stream, "Image too large"),
                  emitted |-> pushed.emitted]
        ELSE [bytesRead |-> total,
              upstream |-> IF pushed.ret THEN upstream
                           ELSE [upstream EXCEPT !.flowing = FALSE],
              limited |-> pushed.stream,
              emitted |-> pushed.emitted]

\* Faulty variant of OnData: an over-limit chunk is dropped and nothing is destroyed.
OnDataTruncate(chunk) ==
    LET total == bytesRead + chunk
        pushed == push(limited, chunk)
    IN  IF total > MAX_SIZE
            THEN [bytesRead |-> total, upstream |-> upstream, limited |-> limited,
                  emitted |-> <<>>]
        ELSE [bytesRead |-> total,
              upstream |-> IF pushed.ret THEN upstream
                           ELSE [upstream EXCEPT !.flowing = FALSE],
              limited |-> pushed.stream,
              emitted |-> pushed.emitted]

\* Faulty variant of OnData: what push returns is ignored.
OnDataNoPause(chunk) ==
    LET total == bytesRead + chunk
        pushed == push(limited, chunk)
    IN  IF total > MAX_SIZE
            THEN [bytesRead |-> total,
                  upstream |-> [upstream EXCEPT !.state = "destroyed"],
                  limited |-> destroy(limited, "Image too large"),
                  emitted |-> <<>>]
        ELSE [bytesRead |-> total, upstream |-> upstream,
              limited |-> pushed.stream, emitted |-> pushed.emitted]

\* likes.get.ts:226-238: upstream's 'data' listener.  The result is the
\* relay's state afterwards and the chunks handed to the consumer.
OnData(chunk) ==
    LET total == bytesRead + chunk
        pushed == push(limited, chunk)
    IN  IF total > MAX_SIZE
            THEN [bytesRead |-> total,
                  upstream |-> [upstream EXCEPT !.state = "destroyed"],
                  limited |-> destroy(limited, "Image too large"),
                  emitted |-> <<>>]
        ELSE [bytesRead |-> total,
              upstream |-> IF pushed.ret THEN upstream
                           ELSE [upstream EXCEPT !.flowing = FALSE],
              limited |-> pushed.stream,
              emitted |-> pushed.emitted]

\* Faulty variant of Read: read() does not resume the upstream.
ReadNoResume(up) == up

\* likes.get.ts:220-223: limited's read(), which node calls as _read().
Read(up) == [up EXCEPT !.flowing = TRUE]

\* upstream emits 'data': only a flowing stream does.
UpstreamData(chunk) ==
    /\ req.pc = "stream"
    /\ upstream.state = "open"
    /\ upstream.flowing
    /\ Len(hist.sent) < MaxChunks
    /\ LET after == OnData(chunk)
       IN  /\ bytesRead' = after.bytesRead
           /\ upstream' = after.upstream
           /\ limited' = after.limited
           /\ hist' = [hist EXCEPT !.sent = Append(@, chunk),
                                   !.delivered = @ \o after.emitted]
    /\ UNCHANGED <<imageProxySecret, call, scroller, card, req, clock>>

\* likes.get.ts:239: upstream emits 'end' (a flowing stream whose source is
\* exhausted).
UpstreamEnd ==
    /\ req.pc = "stream"
    /\ upstream.state = "open"
    /\ upstream.flowing
    /\ upstream' = [upstream EXCEPT !.state = "ended"]
    /\ limited' = pushNull(limited)
    /\ UNCHANGED <<imageProxySecret, call, scroller, card, req, clock, bytesRead, hist>>

\* likes.get.ts:240: upstream emits 'error' (the connection fails).
UpstreamError ==
    /\ req.pc = "stream"
    /\ upstream.state = "open"
    /\ upstream' = [upstream EXCEPT !.state = "destroyed"]
    /\ limited' = destroy(limited, "upstream error")
    /\ UNCHANGED <<imageProxySecret, call, scroller, card, req, clock, bytesRead, hist>>

\* node's maybeReadMore, and flow()'s read() of an empty buffer: a stream
\* that is not ended, not already reading and below its high-water mark
\* calls _read().
LimitedReadMore ==
    /\ req.pc = "stream"
    /\ limited.state = "open"
    /\ ~limited.reading /\ ~limited.ended
    /\ SumSeq(limited.buffer) < highWaterMark
    /\ limited' = [limited EXCEPT !.reading = TRUE]
    /\ upstream' = Read(upstream)
    /\ UNCHANGED <<imageProxySecret, call, scroller, card, req, clock, bytesRead, hist>>

\* The consumer (the response `limited` is piped into) takes the next chunk,
\* or the end of the stream: node's Readable.read() called by flow().  It
\* calls _read() when what stays buffered is below the high-water mark.
ConsumerRead ==
    /\ req.pc = "stream"
    /\ limited.state = "open"
    /\ limited.flowing
    /\ IF limited.buffer # <<>>
           THEN LET chunk == Head(limited.buffer)
                    doRead == /\ SumSeq(limited.buffer) - chunk < highWaterMark
                              /\ ~limited.ended /\ ~limited.reading
                IN  /\ limited' = [limited EXCEPT !.buffer = Tail(@),
                                                  !.reading = @ \/ doRead]
                    /\ upstream' = IF doRead THEN Read(upstream) ELSE upstream
                    /\ hist' = [hist EXCEPT !.delivered = Append(@, chunk)]
       ELSE /\ limited.ended
            /\ limited' = [limited EXCEPT !.endEmitted = TRUE, !.state = "closed"]
            /\ UNCHANGED <<upstream, hist>>
    /\ UNCHANGED <<imageProxySecret, call, scroller, card, req, clock, bytesRead>>

\* The response's write() returned false: pipe() pauses `limited`.
ConsumerPause ==
    /\ req.pc = "stream"
    /\ limited.state = "open"
    /\ limited.flowing
    /\ limited' = [limited EXCEPT !.flowing = FALSE]
    /\ UNCHANGED <<imageProxySecret, call, scroller, card, req, clock, bytesRead, upstream, hist>>

\* The response emits 'drain': pipe() lets `limited` flow again.
ConsumerDrain ==
    /\ req.pc = "stream"
    /\ limited.state = "open"
    /\ ~limited.flowing
    /\ limited' = [limited EXCEPT !.flowing = TRUE]
    /\ UNCHANGED <<imageProxySecret, call, scroller, card, req, clock, bytesRead, upstream, hist>>

\* The client disconnects and the outbound stream is destroyed.  The relay
\* registers nothing on `limited` (likes.get.ts:219-224), so nothing else
\* changes.
ConsumerDestroy ==
    /\ req.pc = "stream"
    /\ limited.state = "open"
    /\ limited' = destroy(limited, "")
    /\ UNCHANGED <<imageProxySecret, call, scroller, card, req, clock, bytesRead, upstream, hist>>

\* Time passes while the body is relayed.
TickStream ==
    /\ req.pc = "stream"
    /\ clock.hopAge < FETCH_TIMEOUT_MS
    /\ clock' = [clock EXCEPT !.hopAge = @ + FETCH_TIMEOUT_MS]
    /\ UNCHANGED <<imageProxySecret, call, scroller, card, req, relayVars, hist>>

\* Faulty variant of BodyTimeout: the signal does not reach the response body.
BodyTimeoutNoAbort ==
    /\ req.pc = "stream"
    /\ SignalDue
    /\ req' = [req EXCEPT !.signal = "fired"]
    /\ UNCHANGED <<imageProxySecret, call, scroller, card, clock, relayVars, hist>>

\* likes.get.ts:116: the signal of the last fetch fires while its body is
\* relayed: the body is errored, upstream emits 'error' (likes.get.ts:240).
BodyTimeout ==
    /\ req.pc = "stream"
    /\ SignalDue
    /\ req' = [req EXCEPT !.signal = "fired"]
    /\ IF upstream.state = "open"
           THEN /\ upstream' = [upstream EXCEPT !.state = "destroyed"]
                /\ limited' = destroy(limited, "TimeoutError")
       ELSE UNCHANGED <<upstream, limited>>
    /\ UNCHANGED <<imageProxySecret, call, scroller, card, clock, bytesRead, hist>>

(***************************************************************************)
(* Specifications                                                          *)
(***************************************************************************)
\* The handler, from the arrival of a request to its error or to the start
\* of the relay.
Next ==
    \/ \E query \in Queries : HandleRequest(query)
    \/ \E answer \in DnsAnswers : ResolveInitialReply(answer)
    \/ \E resp \in Responses : FetchResponse(resp)
    \/ \E answer \in DnsAnswers : ResolveRedirectReply(answer)
    \/ FetchFails
    \/ TickHandler
    \/ FetchTimeout
    \/ RedirectBodyTimeout

Spec == Init /\ [][Next]_vars

\* The relay, from the state StartRelay leaves: a signed request for
\* UrlPublicIp whose first response is a 200 image, arrived at once or when
\* the fetch timeout was about to expire.
RelayInit ==
    /\ call = NoCall
    /\ scroller = IdleScroller
    /\ card = IdleCard
    /\ imageProxySecret = "k1"
    /\ \E age \in {0, FETCH_TIMEOUT_MS} :
        /\ req = [pc |-> "stream", currentUrl |-> UrlPublicIp, redirectUrl |-> BadUrl,
                  i |-> 0, response |-> [status |-> 200, body |-> "locked"],
                  error |-> NoError,
                  headers |-> [names |-> {"Content-Type", "Cache-Control",
                                          "X-Content-Type-Options",
                                          "Content-Security-Policy"},
                               contentType |-> TypePng],
                  redirect |-> "manual", signal |-> "armed"]
        /\ clock = [hopAge |-> age, elapsed |-> age]
    /\ bytesRead = 0
    /\ upstream = [state |-> "open", flowing |-> TRUE]
    /\ limited = [NoLimited EXCEPT !.state = "open", !.flowing = TRUE]
    /\ hist = [NoHistory EXCEPT
                   !.query = [url |-> <<UrlPublicIp>>,
                              sig |-> <<signImageUrl(UrlPublicIp, "k1")>>],
                   !.guardOk = UrlPublicIp, !.hostOk = UrlPublicIp, !.nFetches = 1]

RelayNext ==
    \/ \E chunk \in ChunkSizes : UpstreamData(chunk)
    \/ UpstreamEnd
    \/ UpstreamError
    \/ LimitedReadMore
    \/ ConsumerRead
    \/ ConsumerPause
    \/ ConsumerDrain
    \/ ConsumerDestroy
    \/ TickStream
    \/ BodyTimeout

RelaySpec == RelayInit /\ [][RelayNext]_vars

\* The relay with time passing and the armed timeout firing.
RelayFairSpec == RelaySpec /\ WF_vars(TickStream) /\ WF_vars(BodyTimeout)

\* The relay of a body that upstream delivers and ends, to a consumer that
\* stays connected and keeps reading.  A flowing upstream goes on to emit
\* its next chunk or its end; node runs maybeReadMore on the next tick; a
\* response that asked for a pause drains; the consumer takes what the
\* outbound stream holds whenever that stream flows.
RelayLiveNext ==
    \/ \E chunk \in ChunkSizes : UpstreamData(chunk)
    \/ UpstreamEnd
    \/ LimitedReadMore
    \/ ConsumerRead
    \/ ConsumerPause
    \/ ConsumerDrain

RelayLiveSpec ==
    /\ RelayInit
    /\ [][RelayLiveNext]_vars
    /\ WF_vars(UpstreamEnd \/ \E chunk \in ChunkSizes : UpstreamData(chunk))
    /\ WF_vars(LimitedReadMore)
    /\ WF_vars(ConsumerDrain)
    /\ SF_vars(ConsumerRead)

\* A request without redirects, handler and relay together: the responses
\* are those after which no redirect is followed, a final status or a
\* redirect whose Location new URL() cannot parse.
FinalResponses ==
    {resp \in Responses :
        resp.status \notin REDIRECT_STATUSES \/ resp.location = LocationBad}

PipelineNext ==
    \/ \E query \in Queries : HandleRequest(query)
    \/ \E answer \in DnsAnswers : ResolveInitialReply(answer)
    \/ \E resp \in FinalResponses : FetchResponse(resp)
    \/ FetchFails
    \/ TickHandler
    \/ FetchTimeout
    \/ RelayNext

PipelineSpec == Init /\ [][PipelineNext]_vars

(***************************************************************************)
(* The functions of image-proxy.ts called on their own, as the handler and *)
(* the page renderer call them: each action is one call, on arguments      *)
(* drawn from the pools below, and records what it returned.               *)
(***************************************************************************)
FnUrls ==
    {UrlImage, UrlPublicIp, UrlLoopback, UrlMetadata, UrlFtp, UrlLocal,
     UrlInternal, UrlLocalhost, UrlLocalhostDot, UrlFile, UrlLoopback6,
     UrlUniqueLocal6, UrlMappedLoopback, UrlPublic6, UrlMappedPublic, BadUrl}
FnSecrets == {"", "k1", "k2"}
SignedUrls == {UrlImage, UrlPublicIp, UrlLoopback, BadUrl}
FnSigs == {signImageUrl(u, k) : u \in SignedUrls, k \in FnSecrets} \cup {EmptySig, ShortSig}
FnDnsAnswers ==
    {DnsError} \cup {[error |-> FALSE, addrs |-> s] :
                        s \in SUBSET {AddrPublic, AddrPrivate, UrlLoopback6.host, UrlPublic6.host}}

CallIsAllowedImageUrl(url) ==
    /\ call' = [NoCall EXCEPT !.fn = "isAllowedImageUrl", !.url = url,
                              !.result = isAllowedImageUrl(url)]
    /\ UNCHANGED <<imageProxySecret, req, clock, relayVars, hist, scroller, card>>

\* The resolver is asked only if the hostname is no IP literal
\* (image-proxy.ts:151).
CallResolveAndValidateHost(url, answer) ==
    /\ resolveLiteral(url) # "lookup" => answer = DnsError
    /\ call' = [NoCall EXCEPT !.fn = "resolveAndValidateHost", !.url = url,
                              !.answer = answer,
                              !.lookups = IF resolveLiteral(url) = "lookup" THEN 1 ELSE 0,
                              !.result = resolveAndValidateHost(url, answer)]
    /\ UNCHANGED <<imageProxySecret, req, clock, relayVars, hist, scroller, card>>

CallSignImageUrl(url, secret) ==
    /\ call' = [NoCall EXCEPT !.fn = "signImageUrl", !.url = url, !.secret = secret,
                              !.signature = signImageUrl(url, secret),
                              !.macs = 1,
                              !.result = TRUE]
    /\ UNCHANGED <<imageProxySecret, req, clock, relayVars, hist, scroller, card>>

CallVerifyImageUrl(url, signature, secret) ==
    /\ call' = [NoCall EXCEPT !.fn = "verifyImageUrl", !.url = url, !.secret = secret,
                              !.signature = signature,
                              !.macs = verifyMacs(signature, secret),
                              !.result = verifyImageUrl(url, signature, secret)]
    /\ UNCHANGED <<imageProxySecret, req, clock, relayVars, hist, scroller, card>>

\* Image references as a README holds them: https://example.com/x.png,
\* https://example.com/i?a=1&b=2, http://127.0.0.1/admin,
\* https://evilgithub.com/x.png, https://raw.githubusercontent.com/x.png,
\* https://camo.github.com/x.png, ftp://github.com/x.png, ftp://example.com/x,
\* //example.com/x.png, //github.com/x.png, // (nothing parsable after it),
\* ./logo.png, #readme, data:image/png;base64,AAAA and the empty string.
ProxyTexts ==
    {Str("", UrlImage),
     Str("", Url("https:", Name(<<"example", "com">>), "/i?a=1&b=2")),
     Str("", UrlLoopback),
     Str("", Url("https:", Name(<<"evilgithub", "com">>), "/x.png")),
     Str("", Url("https:", Name(<<"raw", "githubusercontent", "com">>), "/x.png")),
     Str("", Url("https:", Name(<<"camo", "github", "com">>), "/x.png")),
     Str("", Url("ftp:", Name(<<"github", "com">>), "/x.png")),
     Str("", UrlFtp),
     Str("//", Url("", Name(<<"example", "com">>), "/x.png")),
     Str("//", Url("", Name(<<"github", "com">>), "/x.png")),
     Str("//", BadUrl),
     Str("", BadUrl),
     Str("#", BadUrl),
     Str("data:", BadUrl),
     EmptyString}

CallToProxiedImageUrl(text, secret) ==
    /\ call' = [NoCall EXCEPT !.fn = "toProxiedImageUrl", !.text = text,
                              !.secret = secret,
                              !.returned = toProxiedImageUrl(text, secret)]
    /\ UNCHANGED <<imageProxySecret, req, clock, relayVars, hist, scroller, card>>

FnNext ==
    \/ \E text \in ProxyTexts, secret \in FnSecrets : CallToProxiedImageUrl(text, secret)
    \/ \E url \in FnUrls : CallIsAllowedImageUrl(url)
    \/ \E url \in FnUrls, answer \in FnDnsAnswers : CallResolveAndValidateHost(url, answer)
    \/ \E url \in SignedUrls, secret \in FnSecrets : CallSignImageUrl(url, secret)
    \/ \E url \in SignedUrls, signature \in FnSigs, secret \in FnSecrets :
            CallVerifyImageUrl(url, signature, secret)

FnSpec == Init /\ [][FnNext]_vars

(***************************************************************************)
(* useScrollToTop.ts.  A frame the browser holds is the id that             *)
(* requestAnimationFrame returned together with what the callback's closure *)
(* has captured: `start`, and the time since `startTime`, which performance *)
(* .now() - startTime reads when the callback runs.  Positions are whole    *)
(* pixels.                                                                  *)
(***************************************************************************)
SCROLL_TO_TOP_DURATION == 500
\* The time between two readings of performance.now().
FrameInterval == 250
ScrollPositions == {0, 64, 256}
InteractionEvents == {"wheel", "touchstart", "mousedown"}

\* useScrollToTop.ts:2,66-67: start + change * easeOutQuad(t), with
\* t = min(elapsed / SCROLL_TO_TOP_DURATION, 1) and change = -start
AnimatedPosition(start, elapsed) ==
    LET e == IF elapsed < SCROLL_TO_TOP_DURATION THEN elapsed ELSE SCROLL_TO_TOP_DURATION
    IN  start - (start * e * (2 * SCROLL_TO_TOP_DURATION - e))
                    \div (SCROLL_TO_TOP_DURATION * SCROLL_TO_TOP_DURATION)

\* cancelAnimationFrame(id): the browser drops the frame of that id, if it
\* still holds one.
cancelAnimationFrame(frames, id) == {f \in frames : f.id # id}

\* requestAnimationFrame returns an id no frame held and no variable still
\* carries.
requestAnimationFrame(s, start, elapsed) ==
    LET id == CHOOSE n \in 1..(Cardinality(s.frames) + 2) :
                    n # s.rafId /\ \A f \in s.frames : f.id # n
    IN  [s EXCEPT !.rafId = id,
                  !.frames = @ \cup {[id |-> id, start |-> start, elapsed |-> elapsed]}]

\* useScrollToTop.ts:25-31
cancel(s) ==
    [s EXCEPT !.frames = IF s.rafId # NoRaf THEN cancelAnimationFrame(@, s.rafId) ELSE @,
              !.rafId = NoRaf,
              !.isScrolling = FALSE]

\* useScrollToTop.ts:34-38
onInteraction(s) == IF s.isScrolling THEN cancel(s) ELSE s

\* Faulty variant of scrollToTop: the animation in flight is not cancelled first.
scrollToTopNoCancel(s) ==
    IF s.preferReducedMotion THEN [s EXCEPT !.scrollY = 0]
    ELSE IF s.scrollY <= 0 THEN s
    ELSE requestAnimationFrame([s EXCEPT !.isScrolling = TRUE], s.scrollY, 0)

\* useScrollToTop.ts:47-79
scrollToTop(s) ==
    LET c == cancel(s)
    IN  IF c.preferReducedMotion THEN [c EXCEPT !.scrollY = 0]
        ELSE IF c.scrollY <= 0 THEN c
        ELSE requestAnimationFrame([c EXCEPT !.isScrolling = TRUE], c.scrollY, 0)

\* useScrollToTop.ts:64-76: the callback of frame f, which the browser has
\* taken off its list, runs.
animate(s, f) ==
    LET moved == [s EXCEPT !.scrollY = AnimatedPosition(f.start, f.elapsed)]
    IN  IF f.elapsed < SCROLL_TO_TOP_DURATION /\ moved.isScrolling
            THEN requestAnimationFrame(moved, f.start, f.elapsed)
        ELSE cancel(moved)

ScrollToTop ==
    /\ scroller' = scrollToTop(scroller)
    /\ UNCHANGED <<serverVars, card>>

Cancel ==
    /\ scroller' = cancel(scroller)
    /\ UNCHANGED <<serverVars, card>>

\* useScrollToTop.ts:40-45: a wheel, touchstart or mousedown event on the
\* window; the user's gesture may also move the page.
Interaction(event, y) ==
    /\ scroller' = [onInteraction(scroller) EXCEPT !.scrollY = y]
    /\ UNCHANGED <<serverVars, card>>

\* The browser runs the callback of a frame it holds.
AnimationFrame(f) ==
    /\ f \in scroller.frames
    /\ scroller' = animate([scroller EXCEPT !.frames = @ \ {f}], f)
    /\ UNCHANGED <<serverVars, card>>

\* Time passes for the animations whose frames are waiting.  Beyond the
\* duration the callback reads t = 1 whatever the time.
FrameTime ==
    /\ \E f \in scroller.frames : f.elapsed < SCROLL_TO_TOP_DURATION
    /\ scroller' = [scroller EXCEPT !.frames =
            {[f EXCEPT !.elapsed =
                IF @ + FrameInterval > SCROLL_TO_TOP_DURATION
                    THEN SCROLL_TO_TOP_DURATION ELSE @ + FrameInterval] : f \in @}]
    /\ UNCHANGED <<serverVars, card>>

\* useScrollToTop.ts:14: the prefers-reduced-motion media query changes.
MediaQueryChange ==
    /\ scroller' = [scroller EXCEPT !.preferReducedMotion = ~@]
    /\ UNCHANGED <<serverVars, card>>

ScrollNext ==
    \/ ScrollToTop
    \/ Cancel
    \/ \E event \in InteractionEvents, y \in ScrollPositions \cup {scroller.scrollY} :
            Interaction(event, y)
    \/ \E f \in scroller.frames : AnimationFrame(f)
    \/ FrameTime
    \/ MediaQueryChange

ScrollSpec == Init /\ [][ScrollNext]_vars

(***************************************************************************)
(* LikeCard.vue, likeAction.  togglePackageLike is an external             *)
(* collaborator: a call of it is in flight until it settles, with          *)
(* {success: true, data}, with {success: false}, or by throwing.  A call   *)
(* in flight carries what the closure of likeAction captured, and for the  *)
(* properties the likesData it found.                                      *)
(***************************************************************************)
MaxLikeCalls == 2
Handles == {"alice.test"}
LikesPool ==
    {[totalLikes |-> 0, userHasLiked |-> FALSE],
     [totalLikes |-> 7, userHasLiked |-> FALSE],
     [totalLikes |-> 8, userHasLiked |-> TRUE]}
Outcomes ==
    {[kind |-> "success", data |-> d] : d \in LikesPool}
        \cup {[kind |-> k, data |-> [totalLikes |-> 0, userHasLiked |-> FALSE]] :
                    k \in {"failure", "throw"}}

\* LikeCard.vue:36-42: the optimistic update
Optimistic(currentlyLiked, currentLikes) ==
    [totalLikes |-> IF currentlyLiked THEN currentLikes - 1 ELSE currentLikes + 1,
     userHasLiked |-> ~currentlyLiked]

\* Faulty variant of likeAction: a pending like action does not stop the next.
likeActionNoPendingGuard(c) ==
    IF c.user = NoUser THEN [c EXCEPT !.authModalOpen = TRUE]
    ELSE LET currentlyLiked == c.likesData.userHasLiked
             currentLikes == c.likesData.totalLikes
         IN  [c EXCEPT !.likesData = Optimistic(currentlyLiked, currentLikes),
                       !.isLikeActionPending = TRUE,
                       !.sent = @ + 1,
                       !.calls = Append(@, [currentlyLiked |-> currentlyLiked,
                                            currentLikes |-> currentLikes,
                                            handle |-> c.user,
                                            before |-> c.likesData])]

\* LikeCard.vue:27-47: likeAction up to its await
likeAction(c) ==
    IF c.user = NoUser THEN [c EXCEPT !.authModalOpen = TRUE]
    ELSE IF c.isLikeActionPending THEN c
    ELSE LET currentlyLiked == c.likesData.userHasLiked
             currentLikes == c.likesData.totalLikes
         IN  [c EXCEPT !.likesData = Optimistic(currentlyLiked, currentLikes),
                       !.isLikeActionPending = TRUE,
                       !.sent = @ + 1,
                       !.calls = Append(@, [currentlyLiked |-> currentlyLiked,
                                            currentLikes |-> currentLikes,
                                            handle |-> c.user,
                                            before |-> c.likesData])]

\* LikeCard.vue:49-68: likeAction after its await, for the call that settled
likeSettled(c, pendingCall, outcome) ==
    LET reverted == [totalLikes |-> pendingCall.currentLikes,
                     userHasLiked |-> pendingCall.currentlyLiked]
    IN  [c EXCEPT !.isLikeActionPending = FALSE,
                  !.likesData = IF outcome.kind = "success" THEN outcome.data
                                ELSE reverted]

\* The like button is clicked.
LikeAction ==
    /\ likeAction(card).sent <= MaxLikeCalls
    /\ card' = likeAction(card)
    /\ UNCHANGED <<serverVars, scroller>>

\* The k-th call of togglePackageLike in flight settles.
ToggleSettles(k, outcome) ==
    /\ k \in 1..Len(card.calls)
    /\ card' = [likeSettled(card, card.calls[k], outcome) EXCEPT
                    !.calls = SubSeq(@, 1, k - 1) \o SubSeq(@, k + 1, Len(@))]
    /\ UNCHANGED <<serverVars, scroller>>

\* LikeCard.vue:16: useAtproto's user logs in or out.
UserChanges(user) ==
    /\ user # card.user
    /\ card' = [card EXCEPT !.user = user]
    /\ UNCHANGED <<serverVars, scroller>>

\* LikeCard.vue:20-23: useFetch's request for the likes resolves.
LikesFetched(data) ==
    /\ data # card.likesData
    /\ card' = [card EXCEPT !.likesData = data]
    /\ UNCHANGED <<serverVars, scroller>>

LikeNext ==
    \/ LikeAction
    \/ \E k \in 1..MaxLikeCalls, outcome \in Outcomes : ToggleSettles(k, outcome)
    \/ \E user \in Handles \cup {NoUser} : UserChanges(user)
    \/ \E data \in LikesPool : LikesFetched(data)

\* Every call of togglePackageLike settles.
LikeSpec ==
    /\ Init
    /\ [][LikeNext]_vars
    /\ WF_vars(\E k \in 1..MaxLikeCalls, outcome \in Outcomes : ToggleSettles(k, outcome))

(***************************************************************************)
(* Properties                                                              *)
(***************************************************************************)
QueryUrl == IF hist.query.url = NoHeader THEN BadUrl ELSE hist.query.url[1]
QuerySig == IF hist.query.sig = NoHeader THEN EmptySig ELSE hist.query.sig[1]
QueryVerifies ==
    imageProxySecret # "" /\ verifyImageUrl(QueryUrl, QuerySig, imageProxySecret)
NetworkIo == hist.dnsLookups + hist.nFetches

\* C1: no DNS lookup and no fetch happens for a request unless verifyImageUrl
\* is true of its (url, sig) under a non-empty secret; a request that has
\* both parameters and does not verify ends with 403 and no network I/O.
C1_NoIoBeforeVerification ==
    /\ NetworkIo > 0 => QueryVerifies
    /\ (/\ req.pc # "idle"
        /\ hist.query.url # NoHeader
        /\ QuerySig.len > 0
        /\ ~QueryVerifies)
       => /\ req.pc = "done"
          /\ req.error = [statusCode |-> 403, message |-> "Invalid signature."]
          /\ NetworkIo = 0

\* A request signed with another secret has been rejected.
C1_Witness ==
    /\ imageProxySecret = "k1"
    /\ hist.query = [url |-> <<UrlImage>>, sig |-> <<signImageUrl(UrlImage, "k2")>>]
    /\ req.error.statusCode = 403

\* C2: whenever a fetch is in flight, its URL is the one that last passed
\* isAllowedImageUrl and last passed resolveAndValidateHost in this request,
\* and the fetch was issued with redirect: 'manual'.
C2_FetchOnlyValidated ==
    req.pc = "fetch" =>
        /\ hist.guardOk = req.currentUrl
        /\ hist.hostOk = req.currentUrl
        /\ isAllowedImageUrl(req.currentUrl)
        /\ req.redirect = "manual"

\* A redirect target is being fetched after a lookup validated it.
C2_Witness ==
    /\ req.pc = "fetch"
    /\ req.i >= 1
    /\ hist.lastLookup.url = req.currentUrl
    /\ req.currentUrl # QueryUrl

\* The redirect target of the latest redirect response failed a check.
RedirectRejected ==
    /\ req.redirectUrl.ok
    /\ \/ ~isAllowedImageUrl(req.redirectUrl)
       \/ resolveLiteral(req.redirectUrl) = "false"
       \/ /\ resolveLiteral(req.redirectUrl) = "lookup"
          /\ hist.lastLookup.url = req.redirectUrl
          /\ ~resolveAnswer(hist.lastLookup.answer)

\* C3: once a redirect target has failed isAllowedImageUrl or
\* resolveAndValidateHost, the request has ended with 400 'Redirect to
\* disallowed URL.' and no fetch was issued after the redirect response.
C3_DisallowedRedirect ==
    RedirectRejected =>
        /\ req.pc = "done"
        /\ req.error = [statusCode |-> 400, message |-> "Redirect to disallowed URL."]
        /\ req.response.status \in REDIRECT_STATUSES
        /\ hist.nFetches = req.i + 1

\* A redirect from example.com to the loopback address has been refused.
C3_Witness ==
    /\ RedirectRejected
    /\ QueryUrl = UrlImage
    /\ req.redirectUrl = UrlLoopback

\* C4: a request issues at most MAX_REDIRECTS + 1 fetches, and a chain of
\* more than MAX_REDIRECTS followed redirects ends the request with
\* 'Too many redirects.'.
C4_RedirectsBounded ==
    /\ hist.nFetches <= MAX_REDIRECTS + 1
    /\ req.i <= MAX_REDIRECTS + 1
    /\ req.i = MAX_REDIRECTS + 1 =>
        /\ req.pc = "done"
        /\ req.error = [statusCode |-> 502, message |-> "Too many redirects."]

\* The sixth response of a chain was a redirect to a valid target.
C4_Witness ==
    /\ req.i = MAX_REDIRECTS + 1
    /\ hist.nFetches = MAX_REDIRECTS + 1
    /\ hist.hostOk = req.currentUrl

IsPrefix(a, b) == Len(a) <= Len(b) /\ SubSeq(b, 1, Len(a)) = a
\* The chunks `limited` accepted: those handed to the consumer, then those
\* still buffered.
Pushed == hist.delivered \o limited.buffer
BufferedBytes == SumSeq(limited.buffer)

\* C5: the bytes pushed to `limited` never exceed MAX_SIZE; what was pushed
\* is a prefix of what upstream emitted, and the chunk that took bytesRead
\* above MAX_SIZE is not part of it.
C5_PushedWithinLimit ==
    /\ SumSeq(Pushed) <= MAX_SIZE
    /\ IsPrefix(Pushed, hist.sent)
    /\ bytesRead = SumSeq(hist.sent)
    /\ bytesRead > MAX_SIZE => Len(Pushed) < Len(hist.sent)

\* Chunks were forwarded, then one took the counter above MAX_SIZE.
C5_Witness ==
    /\ bytesRead > MAX_SIZE
    /\ Len(hist.delivered) >= 1
    /\ SumSeq(Pushed) = MAX_SIZE

\* C6: once bytesRead exceeds MAX_SIZE both streams are destroyed, `limited`
\* with the error 'Image too large' unless the consumer had destroyed it
\* already, and it never ends cleanly; push(null) reaches `limited` only
\* after upstream ended with bytesRead within MAX_SIZE.
C6_OverLimitAborts ==
    /\ bytesRead > MAX_SIZE =>
        /\ upstream.state = "destroyed"
        /\ limited.state = "destroyed"
        /\ limited.error \in {"Image too large", ""}
        /\ ~limited.ended /\ ~limited.endEmitted
    /\ limited.ended => upstream.state = "ended" /\ bytesRead <= MAX_SIZE
    /\ limited.endEmitted => limited.ended /\ hist.delivered = hist.sent

\* An over-limit body has destroyed the open outbound stream.
C6_Witness ==
    /\ bytesRead > MAX_SIZE
    /\ limited.error = "Image too large"
    /\ upstream.state = "destroyed"

DeclaredOverLimit == hist.declared # NoHeader /\ hist.declared[1] > MAX_SIZE

\* C7 as the specification states it: a declared or an actual size over the limit gives the
\* caller status 413.
C7_Original ==
    (DeclaredOverLimit \/ bytesRead > MAX_SIZE) => req.error.statusCode = 413

\* C7 as amended: a declared size over the limit ends the request with 413
\* before any header is set; an actual size over the limit is met after the
\* success headers are set and the stream returned: no error status is
\* raised, the outbound stream is destroyed and never ends cleanly.
C7_DeclaredGives413 ==
    /\ DeclaredOverLimit =>
        /\ req.pc = "done"
        /\ req.error = [statusCode |-> 413, message |-> "Image too large."]
        /\ req.headers = NoHeaders
        /\ bytesRead = 0
    /\ bytesRead > MAX_SIZE =>
        /\ req.pc = "stream"
        /\ req.error = NoError
        /\ req.headers.names # {}
        /\ limited.state = "destroyed"
        /\ ~limited.endEmitted

\* A body with no declared length went over the limit while streaming.
C7_Witness ==
    /\ bytesRead > MAX_SIZE
    /\ hist.declared = NoHeader
    /\ limited.error = "Image too large"

\* C8: once the outbound stream is destroyed, or the fetch timeout has
\* fired, the upstream source does not stay open for ever.
C8_UpstreamEventuallyClosed ==
    (limited.state = "destroyed" \/ req.signal = "fired") ~> (upstream.state # "open")

\* The client went away while upstream was paused; the timeout closed it.
C8_Witness ==
    /\ limited.state = "destroyed"
    /\ limited.error = ""
    /\ req.signal = "fired"
    /\ upstream.state = "destroyed"
    /\ ~upstream.flowing

\* C9: while `limited` holds its high-water mark or more, upstream is paused;
\* a read() that asked for data has resumed it; and what is buffered exceeds
\* the high-water mark by at most its last chunk.
C9_Backpressure ==
    /\ (limited.state = "open" /\ BufferedBytes >= highWaterMark)
       => ~(upstream.state = "open" /\ upstream.flowing)
    /\ (limited.state = "open" /\ limited.reading) => upstream.flowing
    /\ limited.buffer # <<>>
       => SumSeq(SubSeq(limited.buffer, 1, Len(limited.buffer) - 1)) < highWaterMark

\* push returned false on a full buffer and upstream is paused.
C9_Witness ==
    /\ limited.state = "open"
    /\ BufferedBytes >= highWaterMark
    /\ upstream.state = "open"
    /\ ~upstream.flowing
    /\ Len(limited.buffer) >= 2

Suspended == req.pc \in {"resolveInitial", "fetch", "resolveRedirect"}

C11_MissingLocationDistinct ==
    (req.pc = "done" /\ hist.location = "absent")
        => req.error # [statusCode |-> 502, message |-> "Too many redirects."]

\* C12: when the request has ended with an error, the body of the last
\* upstream response is not left open.
C12_BodiesCancelled ==
    (req.pc = "done" /\ req.error # NoError) => req.response.body # "open"

Rejected(statusCode, message) ==
    req.pc = "done" /\ req.error = [statusCode |-> statusCode, message |-> message]

\* The lookup of the request's own host has settled and no fetch followed.
InitialLookupFailed ==
    /\ resolveLiteral(QueryUrl) = "lookup"
    /\ req.pc # "resolveInitial"
    /\ hist.nFetches = 0

\* C13: a request is rejected by the first stage it fails, in the order
\* missing url (400), missing sig (400), missing secret or bad signature
\* (403), URL guard (400), host resolution (400); the stages after the one
\* that failed do not run.
C13_ValidationPrecedence ==
    req.pc # "idle" =>
        IF hist.query.url = NoHeader
            THEN Rejected(400, "Missing required url query parameter.") /\ NetworkIo = 0
        ELSE IF QuerySig.len = 0
            THEN Rejected(400, "Missing required sig query parameter.") /\ NetworkIo = 0
        ELSE IF ~QueryVerifies
            THEN Rejected(403, "Invalid signature.") /\ NetworkIo = 0
        ELSE IF ~isAllowedImageUrl(QueryUrl)
            THEN Rejected(400, "Invalid or disallowed image URL.") /\ NetworkIo = 0
        ELSE IF resolveLiteral(QueryUrl) = "false" \/ InitialLookupFailed
            THEN /\ Rejected(400, "Invalid or disallowed image URL.")
                 /\ hist.nFetches = 0
                 /\ InitialLookupFailed =>
                        /\ hist.dnsLookups = 1
                        /\ hist.lastLookup.url = QueryUrl
                        /\ ~resolveAnswer(hist.lastLookup.answer)
        ELSE req.error.message \notin
                {"Missing required url query parameter.",
                 "Missing required sig query parameter.",
                 "Invalid signature.", "Invalid or disallowed image URL."}

\* A signed, allowed URL whose host did not resolve to public addresses.
C13_Witness ==
    /\ Rejected(400, "Invalid or disallowed image URL.")
    /\ QueryVerifies
    /\ isAllowedImageUrl(QueryUrl)
    /\ hist.dnsLookups = 1
    /\ hist.lastLookup.answer.addrs = {AddrPublic, AddrPrivate}

\* likes.get.ts:167  response.ok
ResponseOk == req.response.status \in 200..299
\* Nothing of a success response has reached the caller.
NothingRelayed ==
    /\ req.headers = NoHeaders
    /\ hist.sent = <<>> /\ hist.delivered = <<>>
    /\ upstream.state = "none" /\ limited.state = "none"

\* C14: headers are set and bytes relayed only for a final status of 2xx; a
\* final 404 gives the caller 404, any other final non-2xx status gives 502,
\* and in both cases no header is set and no byte forwarded.
C14_TerminalStatus ==
    /\ ~NothingRelayed => ResponseOk /\ req.pc = "stream"
    /\ (req.response.status # 0 /\ ~ResponseOk /\ req.response.status \notin REDIRECT_STATUSES)
        => /\ Rejected(IF req.response.status = 404 THEN 404 ELSE 502,
                       "Failed to fetch image: status")
           /\ NothingRelayed
           /\ req.response.body # "open"

\* The final response was a 404 with a body.
C14_Witness ==
    /\ req.response = [status |-> 404, body |-> "cancelled"]
    /\ req.error.statusCode = 404

\* The content type line 175 arrived at, the default included.
ContentTypeRead == hist.contentType[1]

\* A media type's tokens in lower case (media types are case-insensitive).
LowerCase(ct) == [k \in 1..Len(ct) |-> IF ct[k] = "SVG+XML" THEN "svg+xml" ELSE ct[k]]
\* The type is an image type of the SVG family, however it is spelled.
SvgFamily(ct) == StartsWithImage(LowerCase(ct)) /\ IncludesSvg(LowerCase(ct))

\* C15: headers are set and bytes relayed only for a content type that is an
\* image type and not an SVG one.
C15_ContentTypeGate ==
    ~NothingRelayed =>
        /\ hist.contentType = <<req.headers.contentType>>
        /\ StartsWithImage(ContentTypeRead)
        /\ ~SvgFamily(ContentTypeRead)

\* C16: a Content-Length above MAX_SIZE ends the request with 413 before a
\* byte of the body is read or forwarded, the body cancelled; a Content-Length
\* of exactly MAX_SIZE passes the check, and the body, if there is one, is
\* relayed.
C16_DeclaredLengthCheck ==
    /\ DeclaredOverLimit =>
        /\ Rejected(413, "Image too large.")
        /\ NothingRelayed
        /\ bytesRead = 0
        /\ req.response.body \in {"cancelled", "none"}
    /\ hist.declared = <<MAX_SIZE>> =>
        /\ req.error.statusCode # 413
        /\ req.response.body # "none" => req.pc = "stream" /\ req.error = NoError
        /\ req.response.body = "none" => Rejected(502, "No response body from upstream.")

\* A response that declared one byte more than MAX_SIZE was rejected, its
\* body cancelled.
C16_Witness ==
    /\ hist.declared = <<MAX_SIZE + 1>>
    /\ req.error.statusCode = 413
    /\ req.response.body = "cancelled"

\* C17: the handler sets either no header or exactly Content-Type,
\* Cache-Control, X-Content-Type-Options and Content-Security-Policy, never
\* Content-Length; and it sets them only when the signature, the URL guard,
\* the host resolution, the redirect loop, the status, the content type and
\* the declared length have all passed.
C17_SuccessHeaders ==
    /\ req.headers.names \in
        {{}, {"Content-Type", "Cache-Control", "X-Content-Type-Options",
              "Content-Security-Policy"}}
    /\ req.headers # NoHeaders =>
        /\ req.pc = "stream"
        /\ QueryVerifies
        /\ isAllowedImageUrl(req.currentUrl)
        /\ hist.guardOk = req.currentUrl /\ hist.hostOk = req.currentUrl
        /\ req.i <= MAX_REDIRECTS
        /\ req.response.status \notin REDIRECT_STATUSES
        /\ ResponseOk
        /\ StartsWithImage(ContentTypeRead) /\ ~IncludesSvg(ContentTypeRead)
        /\ req.headers.contentType = ContentTypeRead
        /\ ~DeclaredOverLimit
        /\ req.response.body = "locked"

\* The headers were set for a response that came after a redirect and
\* declared a length of its own.
C17_Witness ==
    /\ req.headers.names # {}
    /\ req.i >= 1
    /\ hist.declared = <<MAX_SIZE>>

\* The host's address is a public unicast one.
Unicast(host) == IsIpLiteral(host) /\ ProcessedRange(host) = "unicast"

\* C18: resolveAndValidateHost returns true iff the hostname is an IP literal
\* that is unicast (and then no lookup is made), or the lookup succeeds with
\* a non-empty answer whose every address is unicast; a missing hostname, an
\* address literal that is not unicast, a lookup error, an empty answer and an
\* answer with one private address all give false.
C18_ResolveAndValidateHost ==
    call.fn = "resolveAndValidateHost" =>
        LET host == call.url.host
            addrs == call.answer.addrs
        IN  /\ call.result <=>
                \/ call.url.ok /\ Unicast(host)
                \/ /\ call.url.ok /\ host.kind = "name"
                   /\ ~call.answer.error
                   /\ addrs # {}
                   /\ \A a \in addrs : Unicast(a)
            /\ call.lookups = IF call.url.ok /\ host.kind = "name" THEN 1 ELSE 0
            /\ (\E a \in addrs : ~Unicast(a)) => ~call.result
            /\ (~call.url.ok \/ host.kind = "none") => ~call.result

\* A name whose answer mixes a public address with a private one.
C18_Witness ==
    /\ call.fn = "resolveAndValidateHost"
    /\ call.url = UrlImage
    /\ call.answer.addrs = {AddrPublic, AddrPrivate}
    /\ ~call.result

\* C19: isAllowedImageUrl is true exactly of a URL that parses, has the scheme
\* http or https and a hostname that is not localhost, does not end in .local
\* or .internal and, if an IP literal, is unicast; it looks nothing up.
\* http://169.254.169.254/x and ftp://example.com/x are rejected,
\* https://example.com/x.png is allowed.
C19_IsAllowedImageUrl ==
    call.fn = "isAllowedImageUrl" =>
        LET host == call.url.host
        IN  /\ call.result <=>
                /\ call.url.ok
                /\ call.url.protocol \in {"http:", "https:"}
                /\ host.kind # "none"
                /\ host # Name(<<"localhost">>)
                /\ ~(host.kind = "name" /\ Len(host.labels) >= 2
                        /\ host.labels[Len(host.labels)] \in {"local", "internal"})
                /\ IsIpLiteral(host) => ProcessedRange(host) = "unicast"
            /\ call.lookups = 0
            /\ call.url = UrlMetadata => ~call.result
            /\ call.url = UrlFtp => ~call.result
            /\ call.url = UrlImage => call.result

\* The link-local metadata address was rejected.
C19_Witness ==
    /\ call.fn = "isAllowedImageUrl"
    /\ call.url = UrlMetadata
    /\ ~call.result

\* C20: for a non-empty secret s, a signature made of (u, s) verifies for
\* (u, s) and for no other URL and no other secret; signImageUrl gives the
\* same 64-character digest for the same (url, secret).
C20_SignVerifyRoundTrip ==
    /\ call.fn = "verifyImageUrl" =>
        \A u \in SignedUrls, s \in FnSecrets \ {""} :
            call.signature = signImageUrl(u, s)
                => (call.result <=> (call.url = u /\ call.secret = s))
    /\ call.fn = "signImageUrl" =>
        /\ call.signature = signImageUrl(call.url, call.secret)
        /\ call.signature.len = HexDigestLen
        /\ call.secret # "" => verifyImageUrl(call.url, call.signature, call.secret)

\* A signature made with one secret was refused under another.
C20_Witness ==
    /\ call.fn = "verifyImageUrl"
    /\ call.signature = signImageUrl(UrlImage, "k1")
    /\ call.url = UrlImage
    /\ call.secret = "k2"
    /\ ~call.result

\* C21: verifyImageUrl given an empty signature or an empty secret returns
\* false, for every URL, and computes no HMAC.
C21_VerifyEmptyInputs ==
    (call.fn = "verifyImageUrl" /\ (call.signature = EmptySig \/ call.secret = ""))
        => ~call.result /\ call.macs = 0

\* The signature made with the empty secret, presented under the empty secret.
C21_Witness ==
    /\ call.fn = "verifyImageUrl"
    /\ call.secret = ""
    /\ call.signature = signImageUrl(call.url, "")
    /\ ~call.result

\* The hostname a text names is a trusted domain or a subdomain of one.
TrustedHostname(text) ==
    /\ text.lead \in {"", "//"}
    /\ text.rest.ok
    /\ text.rest.host.kind = "name"
    /\ \E domain \in TRUSTED_IMAGE_DOMAINS : HostMatches(text.rest.host.labels, domain)

\* The text with "https:" put before a leading "//".
WithHttps(text) ==
    IF text.lead = "//" THEN Str("", [text.rest EXCEPT !.protocol = "https:"]) ELSE text

HttpText(text) ==
    /\ text.lead \in {"", "//"}
    /\ text.rest.ok
    /\ WithHttps(text).rest.protocol \in {"http:", "https:"}

\* C23: the empty string, a fragment, a data: URI and a text that is no
\* http(s) URL are returned unchanged; a protocol-relative text is normalized
\* to https: before the trusted-domain test and before signing, so the sig of
\* a proxy URL is the MAC of the normalized URL, which is also what its url
\* parameter decodes to.
C23_PassThroughAndNormalize ==
    call.fn = "toProxiedImageUrl" =>
        /\ ~HttpText(call.text) => call.returned = Plain(call.text)
        /\ (HttpText(call.text) /\ TrustedHostname(call.text))
                => call.returned = Plain(WithHttps(call.text))
        /\ (HttpText(call.text) /\ ~TrustedHostname(call.text))
                => /\ call.returned.proxied
                   /\ call.returned.sig = signImageUrl(WithHttps(call.text).rest, call.secret)
                   /\ getQuery(call.returned).url = WithHttps(call.text)

\* A protocol-relative text of an untrusted host was proxied under its https
\* form.
C23_Witness ==
    /\ call.fn = "toProxiedImageUrl"
    /\ call.text.lead = "//"
    /\ call.returned.proxied
    /\ getQuery(call.returned).url.rest.protocol = "https:"

\* What the handler makes of a proxy URL: likes.get.ts:57-60 reads the two
\* parameters, likes.get.ts:77-83 answers 403 unless the signature gate
\* accepts them.
ProxyUrlAccepted(proxyUrl) ==
    LET query == getQuery(proxyUrl)
    IN  query.url.lead = "" /\ SignatureAccepted(query.url.rest, query.sig)

\* C25 as the specification states it: for every secret, the proxy URL made
\* with it passes the signature gate of a handler that holds the same secret.
C25_Original ==
    (call.fn = "toProxiedImageUrl" /\ call.returned.proxied
        /\ call.secret = imageProxySecret)
        => ProxyUrlAccepted(call.returned)

\* C25: for every non-trusted http(s) URL and every non-empty secret, the url
\* and sig parameters of the proxy URL, once percent-decoded, are the URL and
\* a signature verifyImageUrl accepts, so a handler holding the same secret
\* does not answer 403; the same sig with any other url is refused.
C25_ProxyUrlRoundTrip ==
    (call.fn = "toProxiedImageUrl" /\ call.text.lead = "" /\ HttpText(call.text)
        /\ ~TrustedHostname(call.text) /\ call.secret # "")
        => /\ call.returned.proxied
           /\ getQuery(call.returned).url = call.text
           /\ verifyImageUrl(call.text.rest, getQuery(call.returned).sig, call.secret)
           /\ call.secret = imageProxySecret =>
                /\ ProxyUrlAccepted(call.returned)
                /\ \A other \in FnUrls \ {call.text.rest} :
                        ~SignatureAccepted(other, getQuery(call.returned).sig)

\* A URL with an '&' in its query was signed with the handler's secret.
C25_Witness ==
    /\ call.fn = "toProxiedImageUrl"
    /\ call.returned.proxied
    /\ call.secret = imageProxySecret
    /\ call.secret # ""
    /\ call.text.rest.path = "/i?a=1&b=2"
    /\ ProxyUrlAccepted(call.returned)

\* The catch block's answer to an error that carries no statusCode.
FailedToProxy ==
    /\ req.pc = "done"
    /\ req.error = [statusCode |-> 502, message |-> "Failed to proxy image."]

\* C24: hops are sequential and never retried.  Iteration i of the loop
\* issues one fetch, the (i + 1)-th of the request, and only while no other
\* is awaited; a request issues at most MAX_REDIRECTS + 1 fetches; a fetch
\* that rejects or times out ends the request with 502 'Failed to proxy
\* image.' and no further fetch.
C24_SequentialNoRetry ==
    /\ [](/\ hist.nFetches <= MAX_REDIRECTS + 1
          /\ req.pc \in {"fetch", "resolveRedirect"} => hist.nFetches = req.i + 1
          /\ req.pc \in {"idle", "resolveInitial"} => hist.nFetches = 0)
    /\ [][hist'.nFetches # hist.nFetches
            => /\ hist'.nFetches = hist.nFetches + 1
               /\ req'.pc = "fetch"
               /\ req'.i = hist.nFetches]_vars
    /\ [][(FetchFails \/ FetchTimeout)
            => (FailedToProxy' /\ hist'.nFetches = hist.nFetches)]_vars
    /\ [][req.pc = "done" => hist'.nFetches = hist.nFetches]_vars

\* The fetch of the second hop failed: the first response's body had been
\* cancelled, two fetches were issued, and the request ended with the 502.
C24_Witness ==
    /\ FailedToProxy
    /\ req.i = 1
    /\ hist.nFetches = 2
    /\ req.response.status \in REDIRECT_STATUSES
    /\ req.response.body = "cancelled"

\* C26: the redirect limit.  A response is served after at most
\* MAX_REDIRECTS redirects; 'Too many redirects.' after a redirect that named
\* a target means MAX_REDIRECTS + 1 redirects were taken, the last of them on
\* the last iteration, whose target passed isAllowedImageUrl and
\* resolveAndValidateHost and was not fetched; a redirect target that fails
\* validation ends the request with 400 'Redirect to disallowed URL.', on the
\* last iteration as on any other.
C26_RedirectLimit ==
    /\ req.pc = "stream" => req.i <= MAX_REDIRECTS /\ hist.nFetches = req.i + 1
    /\ (Rejected(502, "Too many redirects.") /\ hist.location = "present")
            => /\ req.i = MAX_REDIRECTS + 1
               /\ hist.nFetches = MAX_REDIRECTS + 1
               /\ req.currentUrl = req.redirectUrl
               /\ isAllowedImageUrl(req.redirectUrl)
               /\ hist.guardOk = req.redirectUrl
               /\ hist.hostOk = req.redirectUrl
               /\ resolveLiteral(req.redirectUrl) = "lookup"
                    => /\ hist.lastLookup.url = req.redirectUrl
                       /\ resolveAnswer(hist.lastLookup.answer)
    /\ (req.pc = "done" /\ req.redirectUrl.ok /\ hist.hostOk # req.redirectUrl)
            => Rejected(400, "Redirect to disallowed URL.")
    /\ Rejected(400, "Redirect to disallowed URL.") => req.i <= MAX_REDIRECTS

\* The response that followed exactly MAX_REDIRECTS redirects is being
\* served.
C26_Witness ==
    /\ req.pc = "stream"
    /\ req.i = MAX_REDIRECTS
    /\ hist.nFetches = MAX_REDIRECTS + 1
    /\ req.response.status \in 200..299

\* The errors createError makes inside the try block (likes.get.ts:132-201),
\* each with its statusCode.
TryErrors ==
    {[statusCode |-> 400, message |-> "Redirect to disallowed URL."],
     [statusCode |-> 502, message |-> "Failed to fetch image."],
     [statusCode |-> 502, message |-> "Too many redirects."],
     [statusCode |-> 404, message |-> "Failed to fetch image: status"],
     [statusCode |-> 502, message |-> "Failed to fetch image: status"],
     [statusCode |-> 400, message |-> "URL does not point to an allowed image type."],
     [statusCode |-> 413, message |-> "Image too large."],
     [statusCode |-> 502, message |-> "No response body from upstream."]}

\* C28: inside the try block an error that carries a statusCode reaches the
\* caller as thrown; a rejected fetch, a timeout and an unparsable Location
\* reach the caller as 502 'Failed to proxy image.', and nothing else does;
\* an upstream stream error during the relay destroys the outbound stream
\* with that error and changes neither status nor headers.
C28_ErrorNormalisation ==
    /\ [][(FetchFails \/ FetchTimeout) => FailedToProxy']_vars
    /\ [][(req.pc = "fetch" /\ req'.pc = "done" /\ req'.response # req.response)
            => IF /\ req'.response.status \in REDIRECT_STATUSES
                  /\ hist'.location = "present"
                  /\ ~req'.redirectUrl.ok
                   THEN FailedToProxy'
               ELSE req'.error \in TryErrors]_vars
    /\ [][UpstreamError
            => /\ limited' = destroy(limited, "upstream error")
               /\ req' = req]_vars
    /\ [](limited.error = "upstream error"
            => /\ limited.state = "destroyed"
               /\ upstream.state = "destroyed"
               /\ req.pc = "stream"
               /\ req.error = NoError)

\* Upstream failed after chunks had been handed to the consumer.
C28_Witness ==
    /\ limited.error = "upstream error"
    /\ limited.state = "destroyed"
    /\ hist.delivered # <<>>

\* C27: the relay makes progress and keeps the body whole.  What the
\* consumer has received is at every moment the beginning of what upstream
\* has emitted; the relay does not stay for ever with upstream open, so no
\* pause is left without its resume; and once upstream has ended, which it
\* does only with a body of at most MAX_SIZE bytes, the consumer receives
\* every chunk, once and in order, and then the end of the stream.
C27_RelayProgress ==
    /\ [](IsPrefix(hist.delivered, hist.sent))
    /\ [](upstream.state = "ended" => SumSeq(hist.sent) <= MAX_SIZE)
    /\ [](limited.endEmitted => upstream.state = "ended" /\ hist.delivered = hist.sent)
    /\ <>(upstream.state # "open")
    /\ (upstream.state = "ended") ~> (limited.endEmitted /\ hist.delivered = hist.sent)
    /\ (upstream.state = "open" /\ ~upstream.flowing) ~> (upstream.flowing \/ upstream.state # "open")

\* A body of exactly MAX_SIZE bytes in several chunks has reached the
\* consumer, end of stream included.
C27_Witness ==
    /\ limited.endEmitted
    /\ Len(hist.sent) > 1
    /\ SumSeq(hist.sent) = MAX_SIZE
    /\ hist.delivered = hist.sent

\* C29: useScrollToTop keeps at most one animation in flight.  Between
\* events isScrolling is true exactly when rafId is not null, and the
\* browser then holds the one frame of that id and otherwise none; cancel()
\* and an interaction during scrolling leave rafId null, isScrolling false
\* and no frame; a frame that runs once the duration has elapsed puts the
\* page at the top and ends the animation.
C29_OneAnimation ==
    /\ [](/\ scroller.isScrolling <=> scroller.rafId # NoRaf
          /\ Cardinality(scroller.frames) <= 1
          /\ \A f \in scroller.frames : f.id = scroller.rafId
          /\ scroller.isScrolling => scroller.frames # {})
    /\ [][(Cancel \/ (scroller.isScrolling /\ \E event \in InteractionEvents,
                            y \in ScrollPositions \cup {scroller.scrollY} :
                                Interaction(event, y)))
            => /\ scroller'.rafId = NoRaf
               /\ ~scroller'.isScrolling
               /\ scroller'.frames = {}]_vars
    /\ [][\A f \in scroller.frames :
            (AnimationFrame(f) /\ f.elapsed >= SCROLL_TO_TOP_DURATION)
                => /\ ~scroller'.isScrolling
                   /\ scroller'.rafId = NoRaf
                   /\ scroller'.frames = {}
                   /\ scroller'.scrollY = 0]_vars

\* An animation has run half of its duration and its next frame is waiting.
C29_Witness ==
    /\ scroller.isScrolling
    /\ \E f \in scroller.frames :
            f.elapsed = FrameInterval /\ scroller.scrollY = AnimatedPosition(f.start, 0)

\* C30: likeAction's optimistic update.  At most one call of
\* togglePackageLike is in flight, and one is exactly while
\* isLikeActionPending is true; a click while pending or while nobody is
\* logged in sends nothing and leaves likesData and isLikeActionPending as
\* they are; a call that reports failure or throws puts back the totalLikes
\* and userHasLiked that likesData had before the click; every outcome
\* clears isLikeActionPending, and a pending action is eventually cleared.
C30_OptimisticLike ==
    /\ [](/\ Len(card.calls) <= 1
          /\ card.isLikeActionPending <=> card.calls # <<>>)
    /\ [][(LikeAction /\ (card.isLikeActionPending \/ card.user = NoUser))
            => /\ card'.sent = card.sent
               /\ card'.calls = card.calls
               /\ card'.likesData = card.likesData
               /\ card'.isLikeActionPending = card.isLikeActionPending]_vars
    /\ [][\A k \in 1..Len(card.calls), outcome \in Outcomes :
            ToggleSettles(k, outcome)
                => /\ ~card'.isLikeActionPending
                   /\ outcome.kind # "success" => card'.likesData = card.calls[k].before
                   /\ outcome.kind = "success" => card'.likesData = outcome.data]_vars
    /\ card.isLikeActionPending ~> ~card.isLikeActionPending

\* A like was sent while useFetch had not answered; the answer arrived over
\* the optimistic value; the call is still in flight.
C30_Witness ==
    /\ card.isLikeActionPending
    /\ Len(card.calls) = 1
    /\ card.likesData # Optimistic(card.calls[1].currentlyLiked, card.calls[1].currentLikes)
    /\ card.likesData # card.calls[1].before

====
